---- MODULE Spec2Model ----
(***************************************************************************)
(* A model of tavily_cli.py: the click command group `cli`, its five       *)
(* subcommands (search, extract, crawl, map, usage) and the TavilyCLI      *)
(* display methods.                                                        *)
(*                                                                         *)
(* Python values are tagged records, so that values of different types     *)
(* can be told apart and compared:                                         *)
(*   None        [none |-> TRUE]                                           *)
(*   str         [str |-> s]      s a sequence of characters               *)
(*   int         [int |-> n]                                               *)
(*   float       [float |-> h]    h the value in hundredths                *)
(*   bool        [bool |-> b]                                              *)
(*   list        [list |-> l]     l a sequence of values                   *)
(*   dict        [dict |-> p]     p a sequence of <<key, value>> pairs,    *)
(*                                in insertion order, keys distinct        *)
(* A character is a one-element piece of text; a literal of the source     *)
(* that is never cut or measured ("basic", "Results (") is one piece.      *)
(* Output streams are sequences of lines, a line a sequence of pieces.     *)
(***************************************************************************)
EXTENDS Integers, Sequences, FiniteSets, TLC

VARIABLES
    pc,           \* position of the invocation in click's control flow
    argv,         \* the command line and the TAVILY_API_KEY environment
    group,        \* the group's converted parameters (None before parsing)
    obj,          \* ctx.obj: the TavilyCLI instance (None before cli ran)
    params,       \* the subcommand's converted parameters
    request,      \* the keyword arguments of the network call made
    calls,        \* the number of network calls made so far
    outcome,      \* how the network call ended
    response,     \* the response the call returned
    stdout,       \* lines written to standard output
    stderr,       \* lines written to standard error
    exit_code,    \* the process exit code (NoExit while running)
    parsed        \* what is read back from a result (json.loads of the output, a re-parse)

vars == <<pc, argv, group, obj, params, request, calls, outcome, response,
          stdout, stderr, exit_code, parsed>>

-----------------------------------------------------------------------------
(* Python values *)

None == [none |-> TRUE]

Str(s) == [str |-> s]

PyInt(n) == [int |-> n]

Float(h) == [float |-> h]

Bool(b) == [bool |-> b]

List(l) == [list |-> l]

Dict(p) == [dict |-> p]

IsNone(v) == "none" \in DOMAIN v

IsStr(v) == "str" \in DOMAIN v

IsInt(v) == "int" \in DOMAIN v

IsFloat(v) == "float" \in DOMAIN v

IsBool(v) == "bool" \in DOMAIN v

IsList(v) == "list" \in DOMAIN v

IsDict(v) == "dict" \in DOMAIN v

\* Python truth value testing: None, "", 0, 0.0, False, [] and {} are false.
Truthy(v) ==
    IF IsNone(v) THEN FALSE
    ELSE IF IsStr(v) THEN v.str # <<>>
    ELSE IF IsInt(v) THEN v.int # 0
    ELSE IF IsFloat(v) THEN v.float # 0
    ELSE IF IsBool(v) THEN v.bool
    ELSE IF IsList(v) THEN v.list # <<>>
    ELSE v.dict # <<>>

\* key in d
DictHas(d, key) == \E i \in 1..Len(d.dict) : d.dict[i][1] = key

\* d.get(key, default)
DictGet(d, key, default) ==
    IF DictHas(d, key)
    THEN d.dict[CHOOSE i \in 1..Len(d.dict) : d.dict[i][1] = key][2]
    ELSE default

\* s[:n]
Slice(s, n) == SubSeq(s, 1, IF Len(s) < n THEN Len(s) ELSE n)

RECURSIVE Concat(_)
\* the concatenation of a sequence of sequences (halved, to keep the
\* evaluation shallow on long inputs)
Concat(ss) ==
    IF ss = <<>> THEN <<>>
    ELSE IF Len(ss) = 1 THEN ss[1]
    ELSE LET h == Len(ss) \div 2
         IN  Concat(SubSeq(ss, 1, h)) \o Concat(SubSeq(ss, h + 1, Len(ss)))

-----------------------------------------------------------------------------
(* Constants of the source *)

SEARCH_TOPICS == {"general", "news", "finance"}

SEARCH_DEPTHS == {"basic", "advanced"}

TIME_RANGES == {"day", "week", "month", "year", "d", "w", "m", "y"}

OUTPUT_FORMATS == {"json", "text", "markdown"}

CONTENT_FORMATS == {"markdown", "text"}

SearchContentLimit == 200

ExtractContentLimit == 2000

CrawlTextLimit == 300

CrawlMarkdownLimit == 500

UsageTimeout == 10

MaxResultsMin == 1

MaxResultsMax == 20

MaxResultsDefault == 5

MaxDepthMin == 1

MaxDepthMax == 5

MaxDepthDefault == 1

MaxBreadthDefault == 20

LimitDefault == 50

ExtractTimeoutMin == 1

ExtractTimeoutMax == 60

CrawlTimeoutMin == 10

CrawlTimeoutMax == 150

SeparatorWidth == 60

JsonIndent == 2

-----------------------------------------------------------------------------
(* Number formatting *)

Digit(d) == <<"0", "1", "2", "3", "4", "5", "6", "7", "8", "9">>[d + 1]

RECURSIVE NatDigits(_)
\* the decimal digits of a natural number, as str() writes them
NatDigits(n) == IF n < 10 THEN <<Digit(n)>> ELSE NatDigits(n \div 10) \o <<Digit(n % 10)>>

\* str(n) of an int
IntText(n) == IF n < 0 THEN <<"-">> \o NatDigits(-n) ELSE NatDigits(n)

\* f"{x:.2f}" of a number: an int or a float (in hundredths)
Format2f(v) ==
    LET h == IF IsInt(v) THEN v.int * 100 ELSE v.float
        a == IF h < 0 THEN -h ELSE h
    IN  (IF h < 0 THEN <<"-">> ELSE <<>>)
        \o NatDigits(a \div 100)
        \o <<".", Digit((a % 100) \div 10), Digit(a % 10)>>

\* repr(x) of a float in hundredths: the shortest decimal that reads back,
\* with at least one digit after the point ("1.0", "0.9", "0.05")
FloatRepr(h) ==
    LET a == IF h < 0 THEN -h ELSE h
        t == (a % 100) \div 10
        u == a % 10
    IN  (IF h < 0 THEN <<"-">> ELSE <<>>)
        \o NatDigits(a \div 100)
        \o <<".", Digit(t)>>
        \o (IF u = 0 THEN <<>> ELSE <<Digit(u)>>)

\* str(v) as an f-string interpolates a scalar
ValueText(v) ==
    IF IsNone(v) THEN <<"None">>
    ELSE IF IsStr(v) THEN v.str
    ELSE IF IsInt(v) THEN IntText(v.int)
    ELSE IF IsFloat(v) THEN FloatRepr(v.float)
    ELSE IF IsBool(v) THEN (IF v.bool THEN <<"True">> ELSE <<"False">>)
    ELSE <<"<object>">>

-----------------------------------------------------------------------------
(* json.dumps(response, indent=2) and json.loads *)

\* an escape that leaves the backslash as it is
JsonEscapeQuoteOnly(c) == IF c = "\"" THEN <<"\\", "\"">> ELSE <<c>>

\* the escape of one character inside a JSON string
JsonEscapeChar(c) ==
    IF c = "\"" THEN <<"\\", "\"">>
    ELSE IF c = "\\" THEN <<"\\", "\\">>
    ELSE <<c>>

\* a JSON string literal
JsonString(s) ==
    <<"\"">> \o Concat([i \in 1..Len(s) |-> JsonEscapeChar(s[i])]) \o <<"\"">>

\* the indentation of nesting level n
JsonPad(n) == [i \in 1..(JsonIndent * n) |-> " "]

RECURSIVE json_dumps(_, _)
\* json.dumps(v, indent=2), v nested at the given level: a flat text
json_dumps(v, level) ==
    IF IsNone(v) THEN <<"null">>
    ELSE IF IsBool(v) THEN (IF v.bool THEN <<"true">> ELSE <<"false">>)
    ELSE IF IsInt(v) THEN IntText(v.int)
    ELSE IF IsFloat(v) THEN FloatRepr(v.float)
    ELSE IF IsStr(v) THEN JsonString(v.str)
    ELSE IF IsList(v) THEN
        IF v.list = <<>> THEN <<"[", "]">>
        ELSE <<"[", "\n">>
             \o Concat([i \in 1..Len(v.list) |->
                    JsonPad(level + 1)
                    \o json_dumps(v.list[i], level + 1)
                    \o (IF i < Len(v.list) THEN <<",">> ELSE <<>>)
                    \o <<"\n">>])
             \o JsonPad(level) \o <<"]">>
    ELSE
        IF v.dict = <<>> THEN <<"{", "}">>
        ELSE <<"{", "\n">>
             \o Concat([i \in 1..Len(v.dict) |->
                    JsonPad(level + 1)
                    \o JsonString(<<v.dict[i][1]>>) \o <<":", " ">>
                    \o json_dumps(v.dict[i][2], level + 1)
                    \o (IF i < Len(v.dict) THEN <<",">> ELSE <<>>)
                    \o <<"\n">>])
             \o JsonPad(level) \o <<"}">>

\* the lines of a text: the pieces between its newlines
SplitLines(t) ==
    LET nl    == {i \in 1..Len(t) : t[i] = "\n"}
        at(k) == IF k = 0 THEN 0
                 ELSE IF k > Cardinality(nl) THEN Len(t) + 1
                 ELSE CHOOSE p \in nl : Cardinality({q \in nl : q <= p}) = k
    IN  [k \in 1..(Cardinality(nl) + 1) |-> SubSeq(t, at(k - 1) + 1, at(k) - 1)]

\* the text of a sequence of lines, each ended by a newline
JoinLines(ls) == Concat([i \in 1..Len(ls) |-> Append(ls[i], "\n")])

\* click.echo(text): the lines of the text
Echo(t) == SplitLines(t)

\* click.echo(json.dumps(response, indent=2))
EchoJson(resp) == Echo(json_dumps(resp, 0))

JsonError == [v |-> [error |-> TRUE], p |-> 0]

IsDigit(c) == c \in {"0", "1", "2", "3", "4", "5", "6", "7", "8", "9"}

DigitVal(c) == CHOOSE d \in 0..9 : Digit(d) = c

RECURSIVE SkipWs(_, _)
\* the first position at or after p that holds no whitespace
SkipWs(t, p) ==
    IF p <= Len(t) /\ t[p] \in {" ", "\n"} THEN SkipWs(t, p + 1) ELSE p

\* the piece at i, inside a string literal that starts at lo, follows an odd
\* run of backslashes: it is taken literally
Escaped(t, lo, i) ==
    /\ i > lo
    /\ t[i - 1] = "\\"
    /\ LET start == CHOOSE j \in (lo - 1)..(i - 1) :
                        /\ j = lo - 1 \/ t[j] # "\\"
                        /\ \A k \in (j + 1)..(i - 1) : t[k] = "\\"
       IN  (i - 1 - start) % 2 = 1

\* the characters of the string literal whose opening quote precedes p: up to
\* the first quote that is not escaped, each escape replaced by its character
ParseString(t, p) ==
    LET quotes == {i \in p..Len(t) : t[i] = "\"" /\ ~Escaped(t, p, i)}
    IN  IF quotes = {} THEN JsonError
        ELSE LET q    == CHOOSE i \in quotes : \A x \in quotes : i <= x
                 kept == SelectSeq([i \in 1..(q - p) |-> p + i - 1],
                                   LAMBDA i : ~(t[i] = "\\" /\ ~Escaped(t, p, i)))
             IN  [v |-> Str([i \in 1..Len(kept) |-> t[kept[i]]]), p |-> q + 1]

RECURSIVE ParseDigits(_, _, _)
\* the digits from p on: acc collects their values
ParseDigits(t, p, acc) ==
    IF p <= Len(t) /\ IsDigit(t[p])
    THEN ParseDigits(t, p + 1, Append(acc, DigitVal(t[p])))
    ELSE [v |-> acc, p |-> p]

RECURSIVE DigitsValue(_)
DigitsValue(ds) ==
    IF ds = <<>> THEN 0 ELSE DigitsValue(SubSeq(ds, 1, Len(ds) - 1)) * 10 + ds[Len(ds)]

\* a number: an int, or a float when it has a fraction
ParseNumber(t, p) ==
    LET neg  == t[p] = "-"
        ip   == ParseDigits(t, IF neg THEN p + 1 ELSE p, <<>>)
        sign == IF neg THEN -1 ELSE 1
    IN  IF ip.v = <<>> THEN JsonError
        ELSE IF ip.p <= Len(t) /\ t[ip.p] = "." THEN
            LET fp == ParseDigits(t, ip.p + 1, <<>>)
                f1 == IF Len(fp.v) >= 1 THEN fp.v[1] ELSE 0
                f2 == IF Len(fp.v) >= 2 THEN fp.v[2] ELSE 0
            IN  IF fp.v = <<>> THEN JsonError
                ELSE [v |-> Float(sign * (DigitsValue(ip.v) * 100 + f1 * 10 + f2)),
                      p |-> fp.p]
        ELSE [v |-> PyInt(sign * DigitsValue(ip.v)), p |-> ip.p]

RECURSIVE ParseValue(_, _)
RECURSIVE ParseElements(_, _, _)
RECURSIVE ParseMembers(_, _, _)
\* the JSON value that starts at p (after whitespace), and where it ends
ParseValue(t, p0) ==
    LET p == SkipWs(t, p0)
    IN  IF p > Len(t) THEN JsonError
        ELSE IF t[p] = "null" THEN [v |-> None, p |-> p + 1]
        ELSE IF t[p] = "true" THEN [v |-> Bool(TRUE), p |-> p + 1]
        ELSE IF t[p] = "false" THEN [v |-> Bool(FALSE), p |-> p + 1]
        ELSE IF t[p] = "\"" THEN ParseString(t, p + 1)
        ELSE IF t[p] = "-" \/ IsDigit(t[p]) THEN ParseNumber(t, p)
        ELSE IF t[p] = "[" THEN
            LET q == SkipWs(t, p + 1)
            IN  IF q <= Len(t) /\ t[q] = "]" THEN [v |-> List(<<>>), p |-> q + 1]
                ELSE ParseElements(t, q, <<>>)
        ELSE IF t[p] = "{" THEN
            LET q == SkipWs(t, p + 1)
            IN  IF q <= Len(t) /\ t[q] = "}" THEN [v |-> Dict(<<>>), p |-> q + 1]
                ELSE ParseMembers(t, q, <<>>)
        ELSE JsonError

\* the elements of an array from p on
ParseElements(t, p, acc) ==
    LET e == ParseValue(t, p)
        q == SkipWs(t, e.p)
    IN  IF e.p = 0 \/ q > Len(t) THEN JsonError
        ELSE IF t[q] = "," THEN ParseElements(t, q + 1, Append(acc, e.v))
        ELSE IF t[q] = "]" THEN [v |-> List(Append(acc, e.v)), p |-> q + 1]
        ELSE JsonError

\* the members of an object from p on; a repeated key keeps its last value
ParseMembers(t, p0, acc) ==
    LET p == SkipWs(t, p0)
        k == IF p <= Len(t) /\ t[p] = "\"" THEN ParseString(t, p + 1) ELSE JsonError
        c == SkipWs(t, k.p)
    IN  IF k.p = 0 \/ c > Len(t) \/ t[c] # ":" \/ Len(k.v.str) # 1 THEN JsonError
        ELSE
            LET e == ParseValue(t, c + 1)
                q == SkipWs(t, e.p)
                key == k.v.str[1]
                kept == SelectSeq(acc, LAMBDA m : m[1] # key)
                next == IF Len(kept) = Len(acc)
                        THEN Append(acc, <<key, e.v>>)
                        ELSE [i \in 1..Len(acc) |->
                                IF acc[i][1] = key THEN <<key, e.v>> ELSE acc[i]]
            IN  IF e.p = 0 \/ q > Len(t) THEN JsonError
                ELSE IF t[q] = "," THEN ParseMembers(t, q + 1, next)
                ELSE IF t[q] = "}" THEN [v |-> Dict(next), p |-> q + 1]
                ELSE JsonError

\* json.loads(text): the value, or an error when the text is no JSON document
json_loads(t) ==
    LET r == ParseValue(t, 1)
    IN  IF r.p = 0 THEN r.v
        ELSE IF SkipWs(t, r.p) <= Len(t) THEN JsonError.v
        ELSE r.v

-----------------------------------------------------------------------------
(* TavilyCLI display methods: each returns the lines it prints *)

\* a preview that marks content of exactly the limit as cut
PreviewOffByOne(content, limit) ==
    Slice(content, limit) \o (IF Len(content) >= limit THEN <<"...">> ELSE <<>>)

\* content[:limit] followed by '...' if len(content) > limit
Preview(content, limit) ==
    Slice(content, limit) \o (IF Len(content) > limit THEN <<"...">> ELSE <<>>)

\* the trailing response-time lines shared by search, extract, crawl and map
\* a response-time line printed whether or not the response holds the key
ResponseTimeLinesAlways(resp, is_md) ==
    IF is_md
    THEN << <<>>, <<"*Response time: ">>
                   \o Format2f(DictGet(resp, "response_time", PyInt(0))) \o <<"s*">> >>
    ELSE << <<>>, <<"Response time: ">>
                   \o Format2f(DictGet(resp, "response_time", PyInt(0))) \o <<"s">> >>

ResponseTimeLines(resp, is_md) ==
    IF DictHas(resp, "response_time")
    THEN IF is_md
         THEN << <<>>, <<"*Response time: ">>
                        \o Format2f(DictGet(resp, "response_time", None)) \o <<"s*">> >>
         ELSE << <<>>, <<"Response time: ">>
                        \o Format2f(DictGet(resp, "response_time", None)) \o <<"s">> >>
    ELSE <<>>

\* one result of display_search_results
SearchResultLines(i, result, is_md) ==
    LET title   == ValueText(DictGet(result, "title", Str(<<"No title">>)))
        url     == ValueText(DictGet(result, "url", Str(<<>>)))
        content == DictGet(result, "content", Str(<<>>)).str
        score   == DictGet(result, "score", PyInt(0))
    IN  IF is_md
        THEN << <<"### ">> \o IntText(i) \o <<". [">> \o title \o <<"](">> \o url \o <<")">>,
                <<"*Score: ">> \o Format2f(score) \o <<"*">>,
                <<>>,
                content,
                <<>> >>
        ELSE << IntText(i) \o <<". ">> \o title,
                <<"   ">> \o url,
                <<"   Score: ">> \o Format2f(score),
                <<"   ">> \o Preview(content, SearchContentLimit),
                <<>> >>

\* one image of display_search_results
SearchImageLine(img, is_md) ==
    IF IsDict(img)
    THEN IF is_md
         THEN <<"- ![">> \o ValueText(DictGet(img, "description", Str(<<>>)))
              \o <<"](">> \o ValueText(DictGet(img, "url", Str(<<>>))) \o <<")">>
         ELSE <<"  - ">> \o ValueText(DictGet(img, "url", Str(<<>>)))
              \o <<" - ">> \o ValueText(DictGet(img, "description", Str(<<>>)))
    ELSE (IF is_md THEN <<"- ">> ELSE <<"  - ">>) \o ValueText(img)

display_search_results(output_format, resp) ==
    IF output_format = "json" THEN EchoJson(resp)
    ELSE
        LET is_md   == output_format = "markdown"
            query   == ValueText(DictGet(resp, "query", Str(<<>>)))
            results == DictGet(resp, "results", List(<<>>)).list
            images  == DictGet(resp, "images", List(<<>>))
            n       == IntText(Len(results))
        IN  (IF is_md THEN << <<"# Search: ">> \o query, <<>> >>
                      ELSE << <<"Search: ">> \o query, <<>> >>)
            \o (IF DictHas(resp, "answer") /\ Truthy(DictGet(resp, "answer", None))
                THEN IF is_md
                     THEN << <<"## Answer">>, <<>>,
                             ValueText(DictGet(resp, "answer", None)), <<>> >>
                     ELSE << <<"Answer:">>, ValueText(DictGet(resp, "answer", None)), <<>> >>
                ELSE <<>>)
            \o (IF is_md THEN << <<"## Results (">> \o n \o <<")">>, <<>> >>
                         ELSE << <<"Results (">> \o n \o <<"):">>, <<>> >>)
            \o Concat([i \in 1..Len(results) |-> SearchResultLines(i, results[i], is_md)])
            \o (IF Truthy(images)
                THEN (IF is_md
                      THEN << <<"## Images (">> \o IntText(Len(images.list)) \o <<")">>, <<>> >>
                      ELSE << <<"Images (">> \o IntText(Len(images.list)) \o <<"):">> >>)
                     \o [i \in 1..Len(images.list) |-> SearchImageLine(images.list[i], is_md)]
                ELSE <<>>)
            \o ResponseTimeLines(resp, is_md)

\* a result whose omitted-characters line counts the whole content
ExtractResultLinesFullCount(i, result, is_md) ==
    LET url     == ValueText(DictGet(result, "url", Str(<<>>)))
        content == DictGet(result, "raw_content", Str(<<>>)).str
    IN  IF is_md
        THEN << <<"## ">> \o IntText(i) \o <<". ">> \o url, <<>>,
                content, <<>>,
                <<"---">>, <<>> >>
        ELSE << IntText(i) \o <<". ">> \o url, <<>>,
                Slice(content, ExtractContentLimit) >>
             \o (IF Len(content) > ExtractContentLimit
                 THEN << <<>>, <<"... (">> \o IntText(Len(content))
                                \o <<" more characters)">> >>
                 ELSE <<>>)
             \o << <<>>, [k \in 1..SeparatorWidth |-> "-"], <<>> >>

\* one result of display_extract_results
ExtractResultLines(i, result, is_md) ==
    LET url     == ValueText(DictGet(result, "url", Str(<<>>)))
        content == DictGet(result, "raw_content", Str(<<>>)).str
    IN  IF is_md
        THEN << <<"## ">> \o IntText(i) \o <<". ">> \o url, <<>>,
                content, <<>>,
                <<"---">>, <<>> >>
        ELSE << IntText(i) \o <<". ">> \o url, <<>>,
                Slice(content, ExtractContentLimit) >>
             \o (IF Len(content) > ExtractContentLimit
                 THEN << <<>>, <<"... (">> \o IntText(Len(content) - ExtractContentLimit)
                                \o <<" more characters)">> >>
                 ELSE <<>>)
             \o << <<>>, [k \in 1..SeparatorWidth |-> "-"], <<>> >>

\* a failed entry printed without a default for its error
FailedLineNoDefault(f, is_md) ==
    (IF is_md THEN <<"- ">> ELSE <<"  - ">>)
    \o ValueText(DictGet(f, "url", Str(<<>>)))
    \o <<": ">>
    \o ValueText(DictGet(f, "error", Str(<<>>)))

\* one entry of the failed URLs section
FailedLine(f, is_md) ==
    (IF is_md THEN <<"- ">> ELSE <<"  - ">>)
    \o ValueText(DictGet(f, "url", Str(<<>>)))
    \o <<": ">>
    \o ValueText(DictGet(f, "error", Str(<<"Unknown error">>)))

display_extract_results(output_format, resp) ==
    IF output_format = "json" THEN EchoJson(resp)
    ELSE
        LET is_md   == output_format = "markdown"
            results == DictGet(resp, "results", List(<<>>)).list
            failed  == DictGet(resp, "failed_results", List(<<>>))
        IN  (IF is_md THEN << <<"# Extracted Content">>, <<>> >>
                      ELSE << <<"Extracted Content">>, <<>> >>)
            \o Concat([i \in 1..Len(results) |-> ExtractResultLines(i, results[i], is_md)])
            \o (IF Truthy(failed)
                THEN (IF is_md THEN << <<"## Failed URLs">>, <<>> >>
                               ELSE << <<"Failed URLs:">> >>)
                     \o [i \in 1..Len(failed.list) |-> FailedLine(failed.list[i], is_md)]
                ELSE <<>>)
            \o ResponseTimeLines(resp, is_md)

\* one result of a crawl display that reads the url with result.get("url")
CrawlResultLinesNoUrlDefault(i, result, is_md) ==
    LET url     == ValueText(DictGet(result, "url", None))
        content == DictGet(result, "raw_content", Str(<<>>)).str
    IN  IF is_md
        THEN << <<"### ">> \o IntText(i) \o <<". ">> \o url, <<>>,
                (IF content # <<>> THEN Slice(content, CrawlMarkdownLimit) ELSE <<>>)
                \o (IF Len(content) > CrawlMarkdownLimit THEN <<"...">> ELSE <<>>),
                <<>> >>
        ELSE << IntText(i) \o <<". ">> \o url,
                <<"   ">>
                \o (IF content # <<>> THEN Slice(content, CrawlTextLimit) ELSE <<>>)
                \o (IF Len(content) > CrawlTextLimit THEN <<"...">> ELSE <<>>),
                <<>> >>

\* one result of display_crawl_results
CrawlResultLines(i, result, is_md) ==
    LET url     == ValueText(DictGet(result, "url", Str(<<>>)))
        content == DictGet(result, "raw_content", Str(<<>>)).str
    IN  IF is_md
        THEN << <<"### ">> \o IntText(i) \o <<". ">> \o url, <<>>,
                (IF content # <<>> THEN Slice(content, CrawlMarkdownLimit) ELSE <<>>)
                \o (IF Len(content) > CrawlMarkdownLimit THEN <<"...">> ELSE <<>>),
                <<>> >>
        ELSE << IntText(i) \o <<". ">> \o url,
                <<"   ">>
                \o (IF content # <<>> THEN Slice(content, CrawlTextLimit) ELSE <<>>)
                \o (IF Len(content) > CrawlTextLimit THEN <<"...">> ELSE <<>>),
                <<>> >>

\* a crawl display that prints the pages header only when there are pages
display_crawl_results_HeaderIfAny(output_format, resp) ==
    IF output_format = "json" THEN EchoJson(resp)
    ELSE
        LET is_md    == output_format = "markdown"
            base_url == ValueText(DictGet(resp, "base_url", Str(<<>>)))
            results  == DictGet(resp, "results", List(<<>>)).list
            n        == IntText(Len(results))
        IN  (IF is_md THEN << <<"# Crawl Results: ">> \o base_url, <<>> >>
                      ELSE << <<"Crawl Results: ">> \o base_url, <<>> >>)
            \o (IF results = <<>> THEN <<>>
                ELSE IF is_md THEN << <<"## Pages Crawled (">> \o n \o <<")">>, <<>> >>
                ELSE << <<"Pages Crawled (">> \o n \o <<"):">>, <<>> >>)
            \o Concat([i \in 1..Len(results) |-> CrawlResultLines(i, results[i], is_md)])
            \o ResponseTimeLines(resp, is_md)

display_crawl_results(output_format, resp) ==
    IF output_format = "json" THEN EchoJson(resp)
    ELSE
        LET is_md    == output_format = "markdown"
            base_url == ValueText(DictGet(resp, "base_url", Str(<<>>)))
            results  == DictGet(resp, "results", List(<<>>)).list
            n        == IntText(Len(results))
        IN  (IF is_md THEN << <<"# Crawl Results: ">> \o base_url, <<>> >>
                      ELSE << <<"Crawl Results: ">> \o base_url, <<>> >>)
            \o (IF is_md THEN << <<"## Pages Crawled (">> \o n \o <<")">>, <<>> >>
                         ELSE << <<"Pages Crawled (">> \o n \o <<"):">>, <<>> >>)
            \o Concat([i \in 1..Len(results) |-> CrawlResultLines(i, results[i], is_md)])
            \o ResponseTimeLines(resp, is_md)

\* a map display that goes on to print every field of the response
display_map_results_PrintsAll(output_format, resp) ==
    IF output_format = "json" THEN EchoJson(resp)
    ELSE
        LET is_md    == output_format = "markdown"
            base_url == ValueText(DictGet(resp, "base_url", Str(<<>>)))
            results  == DictGet(resp, "results", List(<<>>)).list
            n        == IntText(Len(results))
        IN  (IF is_md
             THEN << <<"# Site Map: ">> \o base_url, <<>>,
                     <<"## URLs Found (">> \o n \o <<")">>, <<>> >>
                  \o [i \in 1..Len(results) |-> <<"- ">> \o ValueText(results[i])]
             ELSE << <<"Site Map: ">> \o base_url, <<>>,
                     <<"URLs Found (">> \o n \o <<"):">>, <<>> >>
                  \o [i \in 1..Len(results) |-> <<"  ">> \o ValueText(results[i])])
            \o ResponseTimeLines(resp, is_md)
            \o [j \in 1..Len(resp.dict) |->
                    <<resp.dict[j][1], ": ">> \o ValueText(resp.dict[j][2])]

display_map_results(output_format, resp) ==
    IF output_format = "json" THEN EchoJson(resp)
    ELSE
        LET is_md    == output_format = "markdown"
            base_url == ValueText(DictGet(resp, "base_url", Str(<<>>)))
            results  == DictGet(resp, "results", List(<<>>)).list
            n        == IntText(Len(results))
        IN  (IF is_md
             THEN << <<"# Site Map: ">> \o base_url, <<>>,
                     <<"## URLs Found (">> \o n \o <<")">>, <<>> >>
                  \o [i \in 1..Len(results) |-> <<"- ">> \o ValueText(results[i])]
             ELSE << <<"Site Map: ">> \o base_url, <<>>,
                     <<"URLs Found (">> \o n \o <<"):">>, <<>> >>
                  \o [i \in 1..Len(results) |-> <<"  ">> \o ValueText(results[i])])
            \o ResponseTimeLines(resp, is_md)

\* the limit interpolated whatever it is
LimitTextAsIs(limit) == ValueText(limit)

\* 'Unlimited' for a limit of None only
LimitTextNoneOnly(limit) == IF IsNone(limit) THEN <<"Unlimited">> ELSE ValueText(limit)

\* limit if limit else 'Unlimited'
LimitText(limit) == IF Truthy(limit) THEN ValueText(limit) ELSE <<"Unlimited">>

display_usage(output_format, resp) ==
    IF output_format = "json" THEN EchoJson(resp)
    ELSE
        LET is_md        == output_format = "markdown"
            key_info     == DictGet(resp, "key", Dict(<<>>))
            account_info == DictGet(resp, "account", Dict(<<>>))
            usage_n      == ValueText(DictGet(key_info, "usage", PyInt(0)))
            limit        == DictGet(key_info, "limit", None)
            plan         == ValueText(DictGet(account_info, "current_plan", Str(<<"Unknown">>)))
            plan_usage   == ValueText(DictGet(account_info, "plan_usage", PyInt(0)))
            plan_limit   == ValueText(DictGet(account_info, "plan_limit", PyInt(0)))
            paygo_usage  == ValueText(DictGet(account_info, "paygo_usage", PyInt(0)))
            paygo_limit  == ValueText(DictGet(account_info, "paygo_limit", PyInt(0)))
        IN  IF is_md
            THEN << <<"# API Usage">>, <<>>,
                    <<"## API Key">>,
                    <<"- **Usage:** ">> \o usage_n,
                    <<"- **Limit:** ">> \o LimitText(limit), <<>>,
                    <<"## Account">>,
                    <<"- **Plan:** ">> \o plan,
                    <<"- **Plan Usage:** ">> \o plan_usage \o <<" / ">> \o plan_limit,
                    <<"- **PayGo Usage:** ">> \o paygo_usage \o <<" / ">> \o paygo_limit >>
            ELSE << <<"API Usage">>, <<>>,
                    <<"API Key:">>,
                    <<"  Usage: ">> \o usage_n,
                    <<"  Limit: ">> \o LimitText(limit), <<>>,
                    <<"Account:">>,
                    <<"  Plan: ">> \o plan,
                    <<"  Plan Usage: ">> \o plan_usage \o <<" / ">> \o plan_limit,
                    <<"  PayGo Usage: ">> \o paygo_usage \o <<" / ">> \o paygo_limit >>

\* the display method each subcommand hands its response to
Display(cmd, output_format, resp) ==
    CASE cmd = "search"  -> display_search_results(output_format, resp)
      [] cmd = "extract" -> display_extract_results(output_format, resp)
      [] cmd = "crawl"   -> display_crawl_results(output_format, resp)
      [] cmd = "map"     -> display_map_results(output_format, resp)
      [] cmd = "usage"   -> display_usage(output_format, resp)

-----------------------------------------------------------------------------
(* The command line, as click converts it *)

\* a string that is one literal word
Lit(w) == Str(<<w>>)

\* an option given without a value (-a, -r: is_flag=False with a flag_value)
Bare == [bare |-> TRUE]

IsBare(v) == "bare" \in DOMAIN v

\* click.Choice(choices): the value is one of the choices, case-sensitively
ChoiceOK(v, choices) == IsStr(v) /\ Len(v.str) = 1 /\ v.str[1] \in choices

\* a range check that forgets the upper end
IntRangeNoMax(v, lo, hi) == IsInt(v) /\ lo <= v.int

\* click.IntRange(lo, hi), not clamped
IntRangeOK(v, lo, hi) == IsInt(v) /\ lo <= v.int /\ v.int <= hi

\* click.FloatRange(lo, hi), not clamped
FloatRangeOK(v, lo, hi) == IsFloat(v) /\ lo * 100 <= v.float /\ v.float <= hi * 100

\* the value of an option: what was given, or the declared default
OrDefault(v, default) == IF IsNone(v) THEN default ELSE v

RECURSIVE SplitComma(_, _)
\* value.split(","): cur is the element being collected
SplitComma(s, cur) ==
    IF s = <<>> THEN <<cur>>
    ELSE IF Head(s) = "," THEN <<cur>> \o SplitComma(Tail(s), <<>>)
    ELSE SplitComma(Tail(s), Append(cur, Head(s)))

\* the characters str.strip() removes
Whitespace == {" ", "\t", "\n"}

RECURSIVE LStrip(_)
LStrip(s) == IF s # <<>> /\ Head(s) \in Whitespace THEN LStrip(Tail(s)) ELSE s

RECURSIVE RStrip(_)
RStrip(s) ==
    IF s # <<>> /\ s[Len(s)] \in Whitespace THEN RStrip(SubSeq(s, 1, Len(s) - 1)) ELSE s

\* x.strip()
Strip(s) == RStrip(LStrip(s))

\* parse_list(ctx, param, value)
parse_list(value) ==
    IF ~Truthy(value) THEN None
    ELSE LET xs == SplitComma(value.str, <<>>)
             kept == SelectSeq(xs, LAMBDA x : Strip(x) # <<>>)
         IN  List([i \in 1..Len(kept) |-> Str(Strip(kept[i]))])

\* the options each command declares
GroupOptions == {"key_flag", "fmt", "verbose"}

DeclaredOptions(cmd) ==
    CASE cmd = "search" ->
            {"depth", "topic", "max_results", "time_range", "include_answer",
             "include_raw", "include_images", "include_domains", "exclude_domains",
             "country"}
      [] cmd = "extract" -> {"depth", "output_format", "include_images", "timeout"}
      [] cmd = "crawl" ->
            {"instructions", "max_depth", "max_breadth", "limit", "select_paths",
             "exclude_paths", "select_domains", "exclude_domains", "no_external",
             "depth", "include_images", "timeout"}
      [] cmd = "map" ->
            {"instructions", "max_depth", "max_breadth", "limit", "select_paths",
             "exclude_paths", "select_domains", "exclude_domains", "no_external",
             "timeout"}
      [] cmd = "usage" -> {}

SubOptions ==
    {"depth", "topic", "max_results", "time_range", "include_answer", "include_raw",
     "include_images", "include_domains", "exclude_domains", "country",
     "output_format", "timeout", "instructions", "max_depth", "max_breadth", "limit",
     "select_paths", "exclude_paths", "select_domains", "no_external"}

\* an option appears on the command line
Given(v) == ~IsNone(v) /\ v # Bool(FALSE)

\* the API key: the -k value when -k is given, else a non-empty TAVILY_API_KEY
ResolveApiKey(a) ==
    IF ~IsNone(a.key_flag) THEN a.key_flag
    ELSE IF Truthy(a.env_key) THEN a.env_key
    ELSE None

\* the group's parameters pass conversion
GroupValid(a) == IsNone(a.fmt) \/ ChoiceOK(a.fmt, OUTPUT_FORMATS)

GroupParams(a) ==
    [api_key       |-> ResolveApiKey(a),
     output_format |-> OrDefault(a.fmt, Lit("text")).str[1],
     verbose       |-> a.verbose.bool]

\* the number of positional arguments a command takes
ArgsOK(cmd, args) ==
    CASE cmd \in {"search", "crawl", "map"} -> Len(args) = 1
      [] cmd = "extract" -> Len(args) >= 1
      [] cmd = "usage" -> Len(args) = 0

SearchValid(a) ==
    /\ IsNone(a.depth) \/ ChoiceOK(a.depth, SEARCH_DEPTHS)
    /\ IsNone(a.topic) \/ ChoiceOK(a.topic, SEARCH_TOPICS)
    /\ IsNone(a.max_results) \/ IntRangeOK(a.max_results, MaxResultsMin, MaxResultsMax)
    /\ IsNone(a.time_range) \/ ChoiceOK(a.time_range, TIME_RANGES)

SearchParams(a) ==
    [query           |-> a.args[1],
     depth           |-> OrDefault(a.depth, Lit("basic")),
     topic           |-> OrDefault(a.topic, Lit("general")),
     max_results     |-> OrDefault(a.max_results, PyInt(MaxResultsDefault)),
     time_range      |-> a.time_range,
     include_answer  |-> IF IsBare(a.include_answer) THEN Lit("basic") ELSE a.include_answer,
     include_raw     |-> IF IsBare(a.include_raw) THEN Lit("markdown") ELSE a.include_raw,
     include_images  |-> a.include_images,
     include_domains |-> parse_list(a.include_domains),
     exclude_domains |-> parse_list(a.exclude_domains),
     country         |-> a.country]

ExtractValid(a) ==
    /\ IsNone(a.depth) \/ ChoiceOK(a.depth, SEARCH_DEPTHS)
    /\ IsNone(a.output_format) \/ ChoiceOK(a.output_format, CONTENT_FORMATS)
    /\ IsNone(a.timeout) \/ FloatRangeOK(a.timeout, ExtractTimeoutMin, ExtractTimeoutMax)

ExtractParams(a) ==
    [urls           |-> a.args,
     depth          |-> OrDefault(a.depth, Lit("basic")),
     output_format  |-> OrDefault(a.output_format, Lit("markdown")),
     include_images |-> a.include_images,
     timeout        |-> a.timeout]

CrawlValid(a) ==
    /\ IsNone(a.max_depth) \/ IntRangeOK(a.max_depth, MaxDepthMin, MaxDepthMax)
    /\ IsNone(a.depth) \/ ChoiceOK(a.depth, SEARCH_DEPTHS)
    /\ IsNone(a.timeout) \/ FloatRangeOK(a.timeout, CrawlTimeoutMin, CrawlTimeoutMax)

CrawlParams(a) ==
    [url            |-> a.args[1],
     instructions   |-> a.instructions,
     max_depth      |-> OrDefault(a.max_depth, PyInt(MaxDepthDefault)),
     max_breadth    |-> OrDefault(a.max_breadth, PyInt(MaxBreadthDefault)),
     limit          |-> OrDefault(a.limit, PyInt(LimitDefault)),
     select_paths   |-> parse_list(a.select_paths),
     exclude_paths  |-> parse_list(a.exclude_paths),
     select_domains |-> parse_list(a.select_domains),
     exclude_domains |-> parse_list(a.exclude_domains),
     no_external    |-> a.no_external,
     depth          |-> OrDefault(a.depth, Lit("basic")),
     include_images |-> a.include_images,
     timeout        |-> a.timeout]

MapValid(a) ==
    /\ IsNone(a.max_depth) \/ IntRangeOK(a.max_depth, MaxDepthMin, MaxDepthMax)
    /\ IsNone(a.timeout) \/ FloatRangeOK(a.timeout, CrawlTimeoutMin, CrawlTimeoutMax)

MapParams(a) ==
    [url            |-> a.args[1],
     instructions   |-> a.instructions,
     max_depth      |-> OrDefault(a.max_depth, PyInt(MaxDepthDefault)),
     max_breadth    |-> OrDefault(a.max_breadth, PyInt(MaxBreadthDefault)),
     limit          |-> OrDefault(a.limit, PyInt(LimitDefault)),
     select_paths   |-> parse_list(a.select_paths),
     exclude_paths  |-> parse_list(a.exclude_paths),
     select_domains |-> parse_list(a.select_domains),
     exclude_domains |-> parse_list(a.exclude_domains),
     no_external    |-> a.no_external,
     timeout        |-> a.timeout]

\* the subcommand's arguments and options all pass click's conversion
SubValid(a) ==
    /\ ArgsOK(a.cmd, a.args)
    /\ \A o \in SubOptions \ DeclaredOptions(a.cmd) : ~Given(a[o])
    /\ CASE a.cmd = "search"  -> SearchValid(a)
         [] a.cmd = "extract" -> ExtractValid(a)
         [] a.cmd = "crawl"   -> CrawlValid(a)
         [] a.cmd = "map"     -> MapValid(a)
         [] a.cmd = "usage"   -> TRUE

SubParams(a) ==
    CASE a.cmd = "search"  -> SearchParams(a)
      [] a.cmd = "extract" -> ExtractParams(a)
      [] a.cmd = "crawl"   -> CrawlParams(a)
      [] a.cmd = "map"     -> MapParams(a)
      [] a.cmd = "usage"   -> [none |-> TRUE]

-----------------------------------------------------------------------------
(* The request each subcommand builds *)

\* kwargs[key] = value, set only if the condition holds
Opt(cond, key, value) == IF cond THEN key :> value ELSE <<>>

\* the value passed through whatever it is
TrueOrKeepsString(value) == value

\* value if value not in ("true", "True") else True
TrueOr(value) == IF value \in {Lit("true"), Lit("True")} THEN Bool(TRUE) ELSE value

\* search's request with the domain lists tested for None rather than for truth
search_kwargs_ListsWhenGiven(p) ==
    [query          |-> p.query,
     search_depth   |-> p.depth,
     topic          |-> p.topic,
     max_results    |-> p.max_results,
     include_images |-> p.include_images]
    @@ Opt(Truthy(p.time_range), "time_range", p.time_range)
    @@ Opt(Truthy(p.include_answer), "include_answer", TrueOr(p.include_answer))
    @@ Opt(Truthy(p.include_raw), "include_raw_content", TrueOr(p.include_raw))
    @@ Opt(~IsNone(p.include_domains), "include_domains", p.include_domains)
    @@ Opt(~IsNone(p.exclude_domains), "exclude_domains", p.exclude_domains)
    @@ Opt(Truthy(p.country), "country", p.country)

search_kwargs(p) ==
    [query          |-> p.query,
     search_depth   |-> p.depth,
     topic          |-> p.topic,
     max_results    |-> p.max_results,
     include_images |-> p.include_images]
    @@ Opt(Truthy(p.time_range), "time_range", p.time_range)
    @@ Opt(Truthy(p.include_answer), "include_answer", TrueOr(p.include_answer))
    @@ Opt(Truthy(p.include_raw), "include_raw_content", TrueOr(p.include_raw))
    @@ Opt(Truthy(p.include_domains), "include_domains", p.include_domains)
    @@ Opt(Truthy(p.exclude_domains), "exclude_domains", p.exclude_domains)
    @@ Opt(Truthy(p.country), "country", p.country)

extract_kwargs(p) ==
    [urls           |-> List(p.urls),
     extract_depth  |-> p.depth,
     include_images |-> p.include_images]
    @@ Opt(Truthy(p.timeout), "timeout", p.timeout)

crawl_kwargs(p) ==
    [url            |-> p.url,
     max_depth      |-> p.max_depth,
     max_breadth    |-> p.max_breadth,
     limit          |-> p.limit,
     allow_external |-> Bool(~p.no_external.bool),
     extract_depth  |-> p.depth,
     include_images |-> p.include_images]
    @@ Opt(Truthy(p.instructions), "instructions", p.instructions)
    @@ Opt(Truthy(p.select_paths), "select_paths", p.select_paths)
    @@ Opt(Truthy(p.exclude_paths), "exclude_paths", p.exclude_paths)
    @@ Opt(Truthy(p.select_domains), "select_domains", p.select_domains)
    @@ Opt(Truthy(p.exclude_domains), "exclude_domains", p.exclude_domains)
    @@ Opt(Truthy(p.timeout), "timeout", p.timeout)

map_kwargs(p) ==
    [url            |-> p.url,
     max_depth      |-> p.max_depth,
     max_breadth    |-> p.max_breadth,
     limit          |-> p.limit,
     allow_external |-> Bool(~p.no_external.bool)]
    @@ Opt(Truthy(p.instructions), "instructions", p.instructions)
    @@ Opt(Truthy(p.select_paths), "select_paths", p.select_paths)
    @@ Opt(Truthy(p.exclude_paths), "exclude_paths", p.exclude_paths)
    @@ Opt(Truthy(p.select_domains), "select_domains", p.select_domains)
    @@ Opt(Truthy(p.exclude_domains), "exclude_domains", p.exclude_domains)
    @@ Opt(Truthy(p.timeout), "timeout", p.timeout)

\* requests.get("https://api.tavily.com/usage", headers=..., timeout=10)
usage_request(key) ==
    [url     |-> Lit("https://api.tavily.com/usage"),
     headers |-> Dict(<< <<"Authorization", Str(<<"Bearer ">> \o key.str)>> >>),
     timeout |-> PyInt(UsageTimeout)]

-----------------------------------------------------------------------------
(* What the process prints besides responses *)

NoExit == 0 - 1

\* cli: the three lines written when no API key is configured
NoKeyLines ==
    << <<"Error: No API key provided.">>,
       <<"Set TAVILY_API_KEY environment variable or use --api-key option.">>,
       <<"Get your free API key at: https://app.tavily.com">> >>

\* click's report of a UsageError (exit code 2)
UsageErrorLines(name) ==
    << <<"Usage: ", name, " [OPTIONS]">>, <<"Try '", name, " -h' for help.">>,
       <<>>, <<"Error: invalid usage">> >>

\* the first line of each command's docstring, as --help prints it
HelpText(cmd) ==
    CASE cmd = "tavily"  -> <<"Tavily CLI - AI-powered search from the command line.">>
      [] cmd = "search"  -> <<"Execute a web search query.">>
      [] cmd = "extract" -> <<"Extract content from one or more URLs.">>
      [] cmd = "crawl"   -> <<"Crawl a website and extract content from discovered pages.">>
      [] cmd = "map"     -> <<"Generate a site map (URLs only, no content extraction).">>
      [] cmd = "usage"   -> <<"Show API key and account usage statistics.">>

HelpLines(cmd) == << <<"Usage: ", cmd, " [OPTIONS]">>, <<>>, HelpText(cmd) >>

VersionLines == << <<"tavily, version 1.0.0">> >>

\* the interpreter's report of an exception nothing caught (exit code 1)
TracebackLines(error) == << <<"Traceback (most recent call last):">>, <<error>> >>

\* logger.debug(f"... kwargs: {kwargs}"), written only under -v
DebugLines(verbose, cmd) == IF verbose THEN << <<"DEBUG ", cmd, " kwargs">> >> ELSE <<>>

\* the ways a network call ends without a response
ApiErrors == {"timeout", "http_error", "bad_json"}

-----------------------------------------------------------------------------
(* Bounds, and the command lines and responses drawn within them *)

\* the longest results (and failed_results) sequence of a response
MaxItems == 2

\* all sequences over S of length at most n
SeqsUpTo(S, n) == UNION {[1..k -> S] : k \in 0..n}

\* a dict of the pairs whose presence flag holds
DictOf(entries) ==
    Dict(LET kept == SelectSeq(entries, LAMBDA e : e[1])
         IN  [i \in 1..Len(kept) |-> <<kept[i][2], kept[i][3]>>])

Text(word) == Str(<<word>>)

Chars4 == Str(<<"T", "e", "s", "t">>)

BaseArgv(cmd) ==
    [key_flag |-> None, env_key |-> None, fmt |-> None, eager |-> "none",
     verbose |-> Bool(FALSE), cmd |-> cmd, help |-> FALSE,
     args |-> IF cmd = "usage" THEN <<>>
              ELSE IF cmd = "search" THEN <<Text("test query")>>
              ELSE <<Text("https://example.com")>>,
     depth |-> None, topic |-> None, max_results |-> None, time_range |-> None,
     include_answer |-> None, include_raw |-> None, include_images |-> Bool(FALSE),
     include_domains |-> None, exclude_domains |-> None, country |-> None,
     output_format |-> None, timeout |-> None, instructions |-> None,
     max_depth |-> None, max_breadth |-> None, limit |-> None,
     select_paths |-> None, exclude_paths |-> None, select_domains |-> None,
     no_external |-> Bool(FALSE)]

\* the command line with the fields of ov replaced
Override(a, ov) == [f \in DOMAIN a |-> IF f \in DOMAIN ov THEN ov[f] ELSE a[f]]

\* values of one option
Values(field, vs) == {field :> v : v \in vs}

ListInputs ==
    {Str(<<"a", ",", " ", "b">>), Str(<<>>), Str(<<" ", ",", " ">>),
     Str(<<" ", "a", " ", ",">>)}

\* the subcommand command lines: the defaults, and each option given alone
SubVariants(cmd) ==
    {<<>>} \cup
    CASE cmd = "search" ->
            Values("depth", {Lit("advanced"), Lit("bogus")})
            \cup Values("topic", {Lit("news"), Lit("finance"), Lit("bogus")})
            \cup Values("max_results",
                        {PyInt(MaxResultsMin - 1), PyInt(MaxResultsMin),
                         PyInt(MaxResultsMax), PyInt(MaxResultsMax + 1), PyInt(10)})
            \cup Values("time_range", {Lit("day"), Lit("y"), Lit("bogus")})
            \cup Values("include_answer",
                        {Bare, Lit("basic"), Lit("advanced"), Lit("true"), Lit("True"),
                         Lit("bogus")})
            \cup Values("include_raw",
                        {Bare, Lit("markdown"), Lit("text"), Lit("true"), Lit("bogus")})
            \cup Values("include_images", {Bool(TRUE)})
            \cup Values("include_domains", ListInputs)
            \cup Values("exclude_domains", ListInputs)
            \cup Values("country", {Lit("us"), Str(<<>>)})
            \cup Values("args", {<<>>, <<Text("a"), Text("b")>>})
            \cup Values("timeout", {Float(500)})
      [] cmd = "extract" ->
            Values("depth", {Lit("advanced"), Lit("bogus")})
            \cup Values("output_format", {Lit("markdown"), Lit("text"), Lit("bogus")})
            \cup Values("include_images", {Bool(TRUE)})
            \cup Values("timeout",
                        {Float(0), Float(ExtractTimeoutMin * 100 - 1),
                         Float(ExtractTimeoutMin * 100), Float(3050),
                         Float(ExtractTimeoutMax * 100),
                         Float(ExtractTimeoutMax * 100 + 1)})
            \cup Values("args",
                        {<<>>, <<Text("https://example.com"), Text("https://example.org")>>})
            \cup Values("topic", {Lit("news")})
      [] cmd = "crawl" ->
            Values("instructions", {Lit("Find API docs"), Str(<<>>)})
            \cup Values("max_depth",
                        {PyInt(MaxDepthMin - 1), PyInt(MaxDepthMin), PyInt(3),
                         PyInt(MaxDepthMax), PyInt(MaxDepthMax + 1)})
            \cup Values("max_breadth", {PyInt(0), PyInt(5)})
            \cup Values("limit", {PyInt(0), PyInt(20)})
            \cup Values("select_paths", ListInputs)
            \cup Values("exclude_paths", ListInputs)
            \cup Values("select_domains", ListInputs)
            \cup Values("exclude_domains", ListInputs)
            \cup Values("no_external", {Bool(TRUE)})
            \cup Values("depth", {Lit("advanced"), Lit("bogus")})
            \cup Values("include_images", {Bool(TRUE)})
            \cup Values("timeout",
                        {Float(0), Float(CrawlTimeoutMin * 100 - 1),
                         Float(CrawlTimeoutMin * 100), Float(3050),
                         Float(CrawlTimeoutMax * 100),
                         Float(CrawlTimeoutMax * 100 + 1)})
            \cup Values("args", {<<>>})
            \cup Values("max_results", {PyInt(10)})
      [] cmd = "map" ->
            Values("instructions", {Lit("Find API docs"), Str(<<>>)})
            \cup Values("max_depth",
                        {PyInt(MaxDepthMin - 1), PyInt(MaxDepthMin), PyInt(3),
                         PyInt(MaxDepthMax), PyInt(MaxDepthMax + 1)})
            \cup Values("max_breadth", {PyInt(0), PyInt(5)})
            \cup Values("limit", {PyInt(0), PyInt(20)})
            \cup Values("select_paths", ListInputs)
            \cup Values("exclude_paths", ListInputs)
            \cup Values("select_domains", ListInputs)
            \cup Values("exclude_domains", ListInputs)
            \cup Values("no_external", {Bool(TRUE)})
            \cup Values("timeout",
                        {Float(0), Float(CrawlTimeoutMin * 100 - 1),
                         Float(CrawlTimeoutMin * 100), Float(3050),
                         Float(CrawlTimeoutMax * 100),
                         Float(CrawlTimeoutMax * 100 + 1)})
            \cup Values("args", {<<>>})
            \cup Values("depth", {Lit("advanced")})
      [] cmd = "usage" ->
            Values("args", {<<Text("extra")>>})
            \cup Values("timeout", {Float(500)})

Commands == {"search", "extract", "crawl", "map", "usage"}

\* where the API key comes from: the -k flag and the environment variable
KeyConfigs ==
    {[key_flag |-> None, env_key |-> None],
     [key_flag |-> None, env_key |-> Str(<<>>)],
     [key_flag |-> None, env_key |-> Lit("env-key")],
     [key_flag |-> Lit("test-key"), env_key |-> None],
     [key_flag |-> Lit("test-key"), env_key |-> Lit("env-key")],
     [key_flag |-> Str(<<>>), env_key |-> Lit("env-key")]}

\* the group's own options besides the key: -f, and one of --help, --version, -v
GroupVariants ==
    {f @@ e :
        f \in {<<>>} \cup Values("fmt", {Lit("json"), Lit("markdown"), Lit("text"), Lit("xml")}),
        e \in {<<>>} \cup Values("eager", {"help", "version"})
                     \cup Values("verbose", {Bool(TRUE)})}

\* the responses a successful call may return
SearchItems ==
    {Dict(<< <<"title", Text("Test Result")>>, <<"url", Text("https://example.com")>>,
             <<"content", Chars4>>, <<"score", Float(90)>> >>),
     Dict(<<>>)}

PageItems ==
    {Dict(<< <<"url", Text("https://example.com/page1")>>, <<"raw_content", Chars4>> >>)}

FailedItems ==
    {Dict(<< <<"url", Text("https://example.org")>>, <<"error", Text("Timed out")>> >>),
     Dict(<< <<"url", Text("https://example.net")>> >>),
     Dict(<< <<"error", Text("Blocked")>> >>)}

FlowResponses(cmd) ==
    CASE cmd = "search" ->
            {DictOf(<< <<TRUE, "query", Text("test query")>>,
                       <<ans, "answer", Text("Test answer")>>,
                       <<TRUE, "results", List(rs)>>,
                       <<rt, "response_time", Float(150)>> >>) :
                ans \in BOOLEAN, rt \in BOOLEAN, rs \in SeqsUpTo(SearchItems, MaxItems)}
      [] cmd = "extract" ->
            {DictOf(<< <<TRUE, "results", List(rs)>>,
                       <<hf, "failed_results", List(fs)>>,
                       <<TRUE, "response_time", Float(50)>> >>) :
                hf \in BOOLEAN, rs \in SeqsUpTo(PageItems, MaxItems),
                fs \in SeqsUpTo(FailedItems, MaxItems)}
      [] cmd = "crawl" ->
            {DictOf(<< <<TRUE, "base_url", Text("https://example.com")>>,
                       <<TRUE, "results", List(rs)>>,
                       <<rt, "response_time", Float(500)>> >>) :
                rt \in BOOLEAN, rs \in SeqsUpTo(PageItems, MaxItems)}
      [] cmd = "map" ->
            {DictOf(<< <<bu, "base_url", Text("https://example.com")>>,
                       <<TRUE, "results", List(rs)>>,
                       <<TRUE, "response_time", Float(200)>> >>) :
                bu \in BOOLEAN,
                rs \in SeqsUpTo({Text("https://example.com/page1")}, MaxItems)}
      [] cmd = "usage" ->
            {DictOf(<< <<TRUE, "key",
                         DictOf(<< <<TRUE, "usage", PyInt(150)>>,
                                   <<hl, "limit", lim>> >>)>>,
                       <<acc, "account",
                         Dict(<< <<"current_plan", Text("Researcher")>>,
                                 <<"plan_usage", PyInt(500)>>,
                                 <<"plan_limit", PyInt(1000)>>,
                                 <<"paygo_usage", PyInt(0)>>,
                                 <<"paygo_limit", PyInt(100)>> >>)>> >>) :
                hl \in BOOLEAN, acc \in BOOLEAN, lim \in {None, PyInt(0), PyInt(1000)}}

-----------------------------------------------------------------------------
(* One invocation of the program *)

Init ==
    /\ pc = "main"
    /\ \E cmd \in Commands, k \in KeyConfigs, g \in GroupVariants, h \in BOOLEAN :
          \E v \in SubVariants(cmd) :
             argv = Override(BaseArgv(cmd), k @@ g @@ v @@ [help |-> h])
    /\ group = None
    /\ obj = None
    /\ params = None
    /\ request = None
    /\ calls = 0
    /\ outcome = "none"
    /\ response = None
    /\ stdout = <<>>
    /\ stderr = <<>>
    /\ exit_code = NoExit
    /\ parsed = None

\* the process ends with the given exit code
Exit(code) == pc' = "done" /\ exit_code' = code

\* main: cli(prog_name="tavily") parses the group's options; --help and
\* --version are eager and act before any other option is converted
main ==
    /\ pc = "main"
    /\ IF argv.eager = "help"
       THEN /\ stdout' = stdout \o HelpLines("tavily")
            /\ Exit(0)
            /\ UNCHANGED <<group, stderr>>
       ELSE IF argv.eager = "version"
       THEN /\ stdout' = stdout \o VersionLines
            /\ Exit(0)
            /\ UNCHANGED <<group, stderr>>
       ELSE IF ~GroupValid(argv)
       THEN /\ stderr' = stderr \o UsageErrorLines("tavily")
            /\ Exit(2)
            /\ UNCHANGED <<group, stdout>>
       ELSE /\ group' = GroupParams(argv)
            /\ pc' = "cli"
            /\ UNCHANGED <<stdout, stderr, exit_code>>
    /\ UNCHANGED <<argv, obj, params, request, calls, outcome, response, parsed>>

\* TavilyCLI.__init__
TavilyCLI(key, output_format) == [api_key |-> key, output_format |-> output_format]

\* a group callback that reports the missing key and carries on
cli_KeepsGoing ==
    /\ pc = "cli"
    /\ stderr' = IF ~Truthy(group.api_key) THEN stderr \o NoKeyLines ELSE stderr
    /\ obj' = TavilyCLI(IF Truthy(group.api_key) THEN group.api_key ELSE Str(<<>>),
                         group.output_format)
    /\ pc' = "parse"
    /\ UNCHANGED <<argv, group, params, request, calls, outcome, response, stdout,
                   exit_code, parsed>>

\* cli: the group callback, run before the subcommand's arguments are parsed
cli ==
    /\ pc = "cli"
    /\ IF ~Truthy(group.api_key)
       THEN /\ stderr' = stderr \o NoKeyLines
            /\ Exit(1)
            /\ UNCHANGED obj
       ELSE /\ obj' = TavilyCLI(group.api_key, group.output_format)
            /\ pc' = "parse"
            /\ UNCHANGED <<stderr, exit_code>>
    /\ UNCHANGED <<argv, group, params, request, calls, outcome, response, stdout, parsed>>

\* the subcommand's context: --help is eager, then every parameter is converted
ParseSubcommand ==
    /\ pc = "parse"
    /\ IF argv.help
       THEN /\ stdout' = stdout \o HelpLines(argv.cmd)
            /\ Exit(0)
            /\ UNCHANGED <<params, stderr>>
       ELSE IF ~SubValid(argv)
       THEN /\ stderr' = stderr \o UsageErrorLines(argv.cmd)
            /\ Exit(2)
            /\ UNCHANGED <<params, stdout>>
       ELSE /\ params' = SubParams(argv)
            /\ pc' = "callback"
            /\ UNCHANGED <<stdout, stderr, exit_code>>
    /\ UNCHANGED <<argv, group, obj, request, calls, outcome, response, parsed>>

\* a call that is tried a second time when it fails
CallWithRetry(cmd, kwargs) ==
    /\ request' = kwargs
    /\ \/ \E e \in ApiErrors :
            /\ calls' = calls + 2
            /\ outcome' = e
            /\ response' = None
            /\ stdout' = stdout
            /\ stderr' = stderr \o DebugLines(group.verbose, cmd) \o TracebackLines(e)
            /\ Exit(1)
       \/ \E r \in FlowResponses(cmd) :
            /\ calls' = calls + 1
            /\ outcome' = "ok"
            /\ response' = r
            /\ stdout' = stdout \o Display(cmd, obj.output_format, r)
            /\ stderr' = stderr \o DebugLines(group.verbose, cmd)
            /\ Exit(0)
    /\ UNCHANGED <<argv, group, obj, params, parsed>>

\* a call whose failure is swallowed: nothing is shown and the exit code is 0
CallIgnoringErrors(cmd, kwargs) ==
    /\ request' = kwargs
    /\ calls' = calls + 1
    /\ \/ \E e \in ApiErrors :
            /\ outcome' = e
            /\ response' = None
            /\ stdout' = stdout
            /\ stderr' = stderr \o DebugLines(group.verbose, cmd)
            /\ Exit(0)
       \/ \E r \in FlowResponses(cmd) :
            /\ outcome' = "ok"
            /\ response' = r
            /\ stdout' = stdout \o Display(cmd, obj.output_format, r)
            /\ stderr' = stderr \o DebugLines(group.verbose, cmd)
            /\ Exit(0)
    /\ UNCHANGED <<argv, group, obj, params, parsed>>

\* the one network call of a command and what follows it: the response is
\* displayed, or the exception ends the process
CallAndDisplay(cmd, kwargs) ==
    /\ request' = kwargs
    /\ calls' = calls + 1
    /\ \/ \E e \in ApiErrors :
            /\ outcome' = e
            /\ response' = None
            /\ stdout' = stdout
            /\ stderr' = stderr \o DebugLines(group.verbose, cmd) \o TracebackLines(e)
            /\ Exit(1)
       \/ \E r \in FlowResponses(cmd) :
            /\ outcome' = "ok"
            /\ response' = r
            /\ stdout' = stdout \o Display(cmd, obj.output_format, r)
            /\ stderr' = stderr \o DebugLines(group.verbose, cmd)
            /\ Exit(0)
    /\ UNCHANGED <<argv, group, obj, params, parsed>>

search ==
    /\ pc = "callback" /\ argv.cmd = "search"
    /\ CallAndDisplay("search", search_kwargs(params))

extract ==
    /\ pc = "callback" /\ argv.cmd = "extract"
    /\ CallAndDisplay("extract", extract_kwargs(params))

crawl ==
    /\ pc = "callback" /\ argv.cmd = "crawl"
    /\ CallAndDisplay("crawl", crawl_kwargs(params))

map_cmd ==
    /\ pc = "callback" /\ argv.cmd = "map"
    /\ CallAndDisplay("map", map_kwargs(params))

\* usage: get_usage() then display_usage(); no debug line is logged
usage ==
    /\ pc = "callback" /\ argv.cmd = "usage"
    /\ request' = usage_request(obj.api_key)
    /\ calls' = calls + 1
    /\ \/ \E e \in ApiErrors :
            /\ outcome' = e
            /\ response' = None
            /\ stdout' = stdout
            /\ stderr' = stderr \o TracebackLines(e)
            /\ Exit(1)
       \/ \E r \in FlowResponses("usage") :
            /\ outcome' = "ok"
            /\ response' = r
            /\ stdout' = stdout \o display_usage(obj.output_format, r)
            /\ stderr' = stderr
            /\ Exit(0)
    /\ UNCHANGED <<argv, group, obj, params, parsed>>

Next ==
    \/ main
    \/ cli
    \/ ParseSubcommand
    \/ search
    \/ extract
    \/ crawl
    \/ map_cmd
    \/ usage

Spec == Init /\ [][Next]_vars

-----------------------------------------------------------------------------
(* Properties of an invocation *)

Done == pc = "done"

\* no key on the command line, and TAVILY_API_KEY unset or empty
NoKeyGiven == IsNone(argv.key_flag) /\ (IsNone(argv.env_key) \/ argv.env_key = Str(<<>>))

\* the group's own options are in order: -f names a format, and neither
\* --help nor --version precedes the subcommand
GroupOptionsFine ==
    /\ argv.eager = "none"
    /\ IsNone(argv.fmt) \/ argv.fmt \in {Lit("json"), Lit("text"), Lit("markdown")}

\* --help or --version is on the command line
HelpRequested == argv.help \/ argv.eager # "none"

\* a key is configured: -k with a value, or no -k and a non-empty variable
KeyConfigured ==
    \/ ~IsNone(argv.key_flag) /\ argv.key_flag # Str(<<>>)
    \/ IsNone(argv.key_flag) /\ ~IsNone(argv.env_key) /\ argv.env_key # Str(<<>>)

PassesValidation ==
    /\ KeyConfigured
    /\ GroupOptionsFine
    /\ ~argv.help
    /\ SubValid(argv)

\* C2: an invocation whose credentials and options pass validation makes
\* exactly one network call by the time it ends, and no invocation ever makes
\* more than one, a failed call included.
C2_ExactlyOneCall ==
    /\ calls <= 1
    /\ (Done /\ PassesValidation) => calls = 1

C2_Witness == Done /\ PassesValidation /\ calls = 1 /\ outcome \in ApiErrors

\* the numeric option of the claim that the command line gives out of range
NumericOutOfRange ==
    \/ /\ argv.cmd = "search" /\ IsInt(argv.max_results)
       /\ (argv.max_results.int < 1 \/ argv.max_results.int > 20)
    \/ /\ argv.cmd \in {"crawl", "map"} /\ IsInt(argv.max_depth)
       /\ (argv.max_depth.int < 1 \/ argv.max_depth.int > 5)
    \/ /\ argv.cmd = "extract" /\ IsFloat(argv.timeout)
       /\ (argv.timeout.float < 1 * 100 \/ argv.timeout.float > 60 * 100)
    \/ /\ argv.cmd \in {"crawl", "map"} /\ IsFloat(argv.timeout)
       /\ (argv.timeout.float < 10 * 100 \/ argv.timeout.float > 150 * 100)

\* the numeric options of the claim that the command line gives, each with
\* the request parameter that carries it
NumericGiven ==
    {o \in {<<"max_results", "max_results">>, <<"max_depth", "max_depth">>,
            <<"timeout", "timeout">>} :
        /\ o[1] \in DeclaredOptions(argv.cmd)
        /\ ~IsNone(argv[o[1]])}

\* the rest of the command line is in order: it would pass validation with
\* the numeric options left out
RestPassesValidation ==
    /\ KeyConfigured
    /\ GroupOptionsFine
    /\ ~argv.help
    /\ SubValid(Override(argv, [max_results |-> None, max_depth |-> None,
                                timeout |-> None]))

EnumeratedValues(param) ==
    CASE param = "search_depth"        -> {Lit("basic"), Lit("advanced")}
      [] param = "extract_depth"       -> {Lit("basic"), Lit("advanced")}
      [] param = "topic"               -> {Lit("general"), Lit("news"), Lit("finance")}
      [] param = "time_range"          ->
            {Lit("day"), Lit("week"), Lit("month"), Lit("year"),
             Lit("d"), Lit("w"), Lit("m"), Lit("y")}
      [] param = "include_answer"      -> {Lit("basic"), Lit("advanced"), Bool(TRUE)}
      [] param = "include_raw_content" -> {Lit("markdown"), Lit("text"), Bool(TRUE)}

EnumeratedParams ==
    {"search_depth", "extract_depth", "topic", "time_range", "include_answer",
     "include_raw_content"}

\* C4 as stated: no request carrying a value outside an enumerated option's
\* set is ever sent: an invalid value of depth, topic, time_range,
\* include_answer or include_raw_content ends the invocation before any
\* network call.
C4_NoInvalidEnumSent ==
    calls >= 1 =>
        \A param \in EnumeratedParams \cap DOMAIN request :
            request[param] \in EnumeratedValues(param)

\* C5 as stated: a subcommand invoked with --help prints its help text and
\* exits with code 0 without a network call, whether or not an API key is
\* configured.
C5_HelpAlwaysExitsZero ==
    (Done /\ argv.help /\ GroupOptionsFine) =>
        (exit_code = 0 /\ stdout = HelpLines(argv.cmd) /\ calls = 0)

\* C6: when the one API call of an invocation fails (timeout, error status,
\* malformed JSON) there is no second attempt, nothing is written to standard
\* output and the exit code is 1; an invocation that made its call exits with
\* code 0 only when the call succeeded and the response was rendered.
C6_FailedCallExitsOne ==
    /\ (Done /\ outcome \in ApiErrors) =>
          (calls = 1 /\ stdout = <<>> /\ exit_code = 1)
    /\ (Done /\ calls >= 1 /\ exit_code = 0) =>
          (outcome = "ok" /\ IsDict(response) /\ stdout # <<>>)
    /\ (Done /\ calls >= 1) => exit_code \in {0, 1}

C6_Witness ==
    Done /\ calls = 1 /\ outcome = "bad_json" /\ exit_code = 1 /\ argv.cmd = "usage"

\* the failed URLs section the claim describes for a sequence of entries
FailedSection(failed, is_md) ==
    (IF is_md THEN << <<"## Failed URLs">>, <<>> >> ELSE << <<"Failed URLs:">> >>)
    \o [i \in 1..Len(failed) |->
          (IF is_md THEN <<"- ">> ELSE <<"  - ">>)
          \o (IF DictHas(failed[i], "url") THEN failed[i].dict[
                 CHOOSE j \in 1..Len(failed[i].dict) : failed[i].dict[j][1] = "url"][2].str
              ELSE <<>>)
          \o <<": ">>
          \o (IF DictHas(failed[i], "error") THEN failed[i].dict[
                 CHOOSE j \in 1..Len(failed[i].dict) : failed[i].dict[j][1] = "error"][2].str
              ELSE <<"Unknown error">>)]

\* a line is the header of the failed URLs section
IsFailedHeader(line) == line \in {<<"## Failed URLs">>, <<"Failed URLs:">>}

\* the failed_results of the response, empty when the key is absent
FailedOf(resp) ==
    IF DictHas(resp, "failed_results")
    THEN resp.dict[CHOOSE j \in 1..Len(resp.dict) : resp.dict[j][1] = "failed_results"][2].list
    ELSE <<>>

ExtractRendered ==
    /\ Done /\ argv.cmd = "extract" /\ outcome = "ok"
    /\ obj.output_format \in {"text", "markdown"}

\* C7: in text and markdown modes of extract, a successful response with a
\* non-empty failed_results is rendered with a 'Failed URLs' section of one
\* "url: error" line per failed entry, in order, the error defaulting to
\* 'Unknown error'; the section is absent when failed_results is empty or
\* missing; the exit code is 0 in both cases.
C7_FailedUrlsSection ==
    ExtractRendered =>
        LET failed  == FailedOf(response)
            is_md   == obj.output_format = "markdown"
            section == FailedSection(failed, is_md)
            tail    == IF DictHas(response, "response_time") THEN 2 ELSE 0
            first   == Len(stdout) - tail - Len(section) + 1
        IN  /\ exit_code = 0
            /\ failed = <<>> => \A k \in 1..Len(stdout) : ~IsFailedHeader(stdout[k])
            /\ failed # <<>> =>
                  /\ first >= 1
                  /\ SubSeq(stdout, first, first + Len(section) - 1) = section
                  /\ Cardinality({k \in 1..Len(stdout) : IsFailedHeader(stdout[k])}) = 1

C7_Witness ==
    /\ ExtractRendered /\ obj.output_format = "text"
    /\ Len(FailedOf(response)) = 2
    /\ \E i \in 1..2 : ~DictHas(FailedOf(response)[i], "error")
    /\ \E k \in 1..Len(stdout) : stdout[k] = <<"Failed URLs:">>
    /\ exit_code = 0

-----------------------------------------------------------------------------
(* The display methods on their own, as TestTavilyCLI calls them: a TavilyCLI *)
(* is built with an output format, one display method prints a response, and  *)
(* in json mode the test reads the output back with json.loads.               *)

\* how far past a truncation limit the longest content reaches
MaxOver == 3

\* the most keys of a generic response tree
MaxKeys == 2

Letter(i) == <<"a", "b", "c", "d", "e", "f", "g">>[(i % 7) + 1]

\* a content string of n characters
Content(n) == Str([i \in 1..n |-> Letter(i)])

\* content lengths around a truncation limit
LengthsAround(limit) == {limit - 1, limit, limit + 1, limit + MaxOver}

SearchLongItems ==
    {Dict(<< <<"title", Text("Test")>>, <<"url", Text("https://example.com")>>,
             <<"content", Content(n)>>, <<"score", Float(90)>> >>) :
        n \in {0, 1} \cup LengthsAround(SearchContentLimit)}

ExtractLongItems ==
    {Dict(<< <<"url", Text("https://example.com")>>, <<"raw_content", Content(n)>> >>) :
        n \in {0, 1} \cup LengthsAround(ExtractContentLimit)}

CrawlLongItems ==
    {Dict(<< <<"url", Text("https://example.com/page1")>>, <<"raw_content", Content(n)>> >>) :
        n \in {0, 1} \cup LengthsAround(CrawlTextLimit) \cup LengthsAround(CrawlMarkdownLimit)}

\* responses whose contents reach the truncation limits
LongResponses(cmd) ==
    CASE cmd = "search" ->
            {DictOf(<< <<TRUE, "query", Text("test")>>,
                       <<ans, "answer", Text("Test answer")>>,
                       <<TRUE, "results", List(rs)>>,
                       <<TRUE, "response_time", Float(100)>> >>) :
                ans \in BOOLEAN, rs \in SeqsUpTo(SearchLongItems, MaxItems)}
      [] cmd = "extract" ->
            {DictOf(<< <<TRUE, "results", List(rs)>>,
                       <<hf, "failed_results", List(<<>>)>>,
                       <<TRUE, "response_time", Float(50)>> >>) :
                hf \in BOOLEAN, rs \in SeqsUpTo(ExtractLongItems, MaxItems)}
      [] cmd = "crawl" ->
            {DictOf(<< <<TRUE, "base_url", Text("https://example.com")>>,
                       <<TRUE, "results", List(rs)>>,
                       <<TRUE, "response_time", Float(500)>> >>) :
                rs \in SeqsUpTo(CrawlLongItems, MaxItems)}
      [] cmd \in {"map", "usage"} -> FlowResponses(cmd)

\* values of a generic tree: scalars of every kind, strings that need
\* escaping, and nested sequences and mappings
TreeValues ==
    {None, Bool(TRUE), Bool(FALSE), PyInt(-7), PyInt(1000), Float(5), Float(-150),
     Str(<<>>), Str(<<"a", "\"", "\\", "b">>), Str(<<"\\", "\\", "\"">>),
     List(<<>>), List(<<PyInt(1), Str(<<"x", " ", ",">>), None>>),
     List(<<Dict(<< <<"z", Float(100)>>, <<"k", List(<<PyInt(0)>>)>> >>), Dict(<<>>)>>),
     Dict(<<>>), Dict(<< <<"k", List(<<None, Str(<<"{">>)>>)>> >>)}

TreeKeys == {"results", "answer", "query"}

\* generic responses: mappings of up to MaxKeys distinct keys, in every order
Trees ==
    {Dict([i \in 1..Len(ks) |-> <<ks[i], vs[i]>>]) :
        ks \in {k \in SeqsUpTo(TreeKeys, MaxKeys) :
                    \A i, j \in 1..Len(k) : i # j => k[i] # k[j]},
        vs \in [1..MaxKeys -> TreeValues]}

\* the responses a display method is given in an output format
RenderResponses(cmd, output_format) ==
    IF output_format = "json"
    THEN Trees \cup LongResponses(cmd)
    ELSE LongResponses(cmd)

RenderInit ==
    /\ pc = "display"
    /\ \E cmd \in Commands, f \in OUTPUT_FORMATS :
          /\ argv = BaseArgv(cmd)
          /\ obj = TavilyCLI(Lit("test"), f)
          /\ response \in RenderResponses(cmd, f)
    /\ group = None
    /\ params = None
    /\ request = None
    /\ calls = 0
    /\ outcome = "ok"
    /\ stdout = <<>>
    /\ stderr = <<>>
    /\ exit_code = NoExit
    /\ parsed = None

\* a display method prints the response
Displays(cmd, lines) ==
    /\ pc = "display" /\ argv.cmd = cmd
    /\ stdout' = stdout \o lines
    /\ pc' = "displayed"
    /\ UNCHANGED <<argv, group, obj, params, request, calls, outcome, response,
                   stderr, exit_code, parsed>>

DisplaySearch == Displays("search", display_search_results(obj.output_format, response))

DisplayExtract == Displays("extract", display_extract_results(obj.output_format, response))

DisplayCrawl == Displays("crawl", display_crawl_results(obj.output_format, response))

DisplayMap == Displays("map", display_map_results(obj.output_format, response))

DisplayUsage == Displays("usage", display_usage(obj.output_format, response))

\* output = json.loads(captured.out)
LoadOutput ==
    /\ pc = "displayed" /\ obj.output_format = "json"
    /\ parsed' = json_loads(JoinLines(stdout))
    /\ pc' = "loaded"
    /\ UNCHANGED <<argv, group, obj, params, request, calls, outcome, response,
                   stdout, stderr, exit_code>>

RenderNext ==
    \/ DisplaySearch
    \/ DisplayExtract
    \/ DisplayCrawl
    \/ DisplayMap
    \/ DisplayUsage
    \/ LoadOutput

RenderSpec == RenderInit /\ [][RenderNext]_vars

-----------------------------------------------------------------------------
(* Properties of the display methods *)

Displayed == pc \in {"displayed", "loaded"}

\* C8: in json mode, for each of the five display methods and every response
\* tree, parsing the printed output gives back the response: the same keys in
\* the same order with the same values, nothing cut and nothing added.
C8_JsonRoundTrip == pc = "loaded" => parsed = response

C8_Witness ==
    /\ pc = "loaded" /\ argv.cmd = "usage"
    /\ Len(response.dict) = 2
    /\ response.dict[1][1] = "results" /\ response.dict[2][1] = "answer"
    /\ response.dict[1][2] = Str(<<"a", "\"", "\\", "b">>)
    /\ IsList(response.dict[2][2]) /\ Len(response.dict[2][2].list) = 2
    /\ parsed = response

\* the value of a key the response is known to hold
Field(d, key) == d.dict[CHOOSE j \in 1..Len(d.dict) : d.dict[j][1] = key][2]

\* content cut at a limit as the truncation rule states it
Truncated(content, limit) ==
    IF Len(content) <= limit THEN content
    ELSE [k \in 1..limit |-> content[k]] \o <<"...">>

\* the results of the response under display
ResultsOf(resp) == Field(resp, "results").list

\* C9: content of length <= T is printed in full with no '...'; longer content
\* is printed as exactly its first T characters followed by '...': T = 200 for
\* search content in text mode, 300 for crawl content in text mode, 500 for
\* crawl content in markdown mode.
C9_EllipsisTruncation ==
    /\ (Displayed /\ argv.cmd = "search" /\ obj.output_format = "text") =>
          LET first == IF DictHas(response, "answer") THEN 7 ELSE 4
          IN  \A i \in 1..Len(ResultsOf(response)) :
                 stdout[first + 5 * (i - 1) + 4] =
                    <<"   ">> \o Truncated(Field(ResultsOf(response)[i], "content").str, 200)
    /\ (Displayed /\ argv.cmd = "crawl" /\ obj.output_format = "text") =>
          \A i \in 1..Len(ResultsOf(response)) :
             stdout[4 + 3 * (i - 1) + 2] =
                <<"   ">> \o Truncated(Field(ResultsOf(response)[i], "raw_content").str, 300)
    /\ (Displayed /\ argv.cmd = "crawl" /\ obj.output_format = "markdown") =>
          \A i \in 1..Len(ResultsOf(response)) :
             stdout[4 + 4 * (i - 1) + 3] =
                Truncated(Field(ResultsOf(response)[i], "raw_content").str, 500)

C9_Witness ==
    /\ Displayed /\ argv.cmd = "search" /\ obj.output_format = "text"
    /\ Len(ResultsOf(response)) = 2
    /\ Len(Field(ResultsOf(response)[1], "content").str) = 200
    /\ Len(Field(ResultsOf(response)[2], "content").str) = 201
    /\ Len(stdout[8]) = 201
    /\ Len(stdout[13]) = 202 /\ stdout[13][202] = "..."

\* the lines the claim gives one extract result
ExtractBlock(i, result, is_md) ==
    LET content == Field(result, "raw_content").str
        url     == Field(result, "url").str
        over    == Len(content) - 2000
    IN  IF is_md
        THEN << <<"## ">> \o IntText(i) \o <<". ">> \o url, <<>>, content, <<>>,
                <<"---">>, <<>> >>
        ELSE << IntText(i) \o <<". ">> \o url, <<>>,
                [k \in 1..(IF over > 0 THEN 2000 ELSE Len(content)) |-> content[k]] >>
             \o (IF over > 0
                 THEN << <<>>, <<"... (">> \o IntText(over) \o <<" more characters)">> >>
                 ELSE <<>>)
             \o << <<>>, [k \in 1..60 |-> "-"], <<>> >>

\* C10: extract in text mode prints the first 2000 characters of each result's
\* raw content and, iff the content is longer, a line stating exactly
\* len(content) - 2000 more characters; in markdown mode it prints the raw
\* content in full.
C10_ExtractTruncation ==
    (Displayed /\ argv.cmd = "extract" /\ obj.output_format \in {"text", "markdown"}) =>
        LET is_md  == obj.output_format = "markdown"
            rs     == ResultsOf(response)
            blocks == Concat([i \in 1..Len(rs) |-> ExtractBlock(i, rs[i], is_md)])
        IN  /\ Len(stdout) >= 2 + Len(blocks)
            /\ SubSeq(stdout, 3, 2 + Len(blocks)) = blocks

C10_Witness ==
    /\ Displayed /\ argv.cmd = "extract" /\ obj.output_format = "text"
    /\ Len(ResultsOf(response)) = 2
    /\ Len(Field(ResultsOf(response)[1], "raw_content").str) = 2000
    /\ Len(Field(ResultsOf(response)[2], "raw_content").str) = 2000 + MaxOver
    /\ Len(stdout[5]) = 2000
    /\ stdout[9] = <<"2", ". ", "https://example.com">>
    /\ Len(stdout[11]) = 2000
    /\ stdout[13] = <<"... (">> \o IntText(MaxOver) \o <<" more characters)">>

-----------------------------------------------------------------------------
(* parse_list on its own, as TestParseList calls it: the callback is given an *)
(* option's string (or None) and returns the option's value; the value of a   *)
(* list, joined with commas, is given to the callback again.                  *)

\* the longest option string given to parse_list
MaxListLen == 4

ListChars == {"a", "b", " ", "\t", ","}

\* the strings given to the callback, and the absent option
ListValues == {None} \cup {Str(cs) : cs \in SeqsUpTo(ListChars, MaxListLen)}

ParseListInit ==
    /\ pc = "value"
    /\ argv \in {[cmd |-> "parse_list", value |-> v] : v \in ListValues}
    /\ group = None
    /\ obj = None
    /\ params = None
    /\ request = None
    /\ calls = 0
    /\ outcome = "ok"
    /\ response = None
    /\ stdout = <<>>
    /\ stderr = <<>>
    /\ exit_code = NoExit
    /\ parsed = None

\* result = parse_list(None, None, value)
ParseList ==
    /\ pc = "value"
    /\ params' = parse_list(argv.value)
    /\ pc' = "result"
    /\ UNCHANGED <<argv, group, obj, request, calls, outcome, response, stdout,
                   stderr, exit_code, parsed>>

\* ",".join(xs)
JoinComma(xs) ==
    Concat([i \in 1..(2 * Len(xs) - 1) |->
                IF i % 2 = 1 THEN xs[(i + 1) \div 2].str ELSE <<",">>])

\* parse_list(None, None, ",".join(result))
ParseListAgain ==
    /\ pc = "result" /\ IsList(params)
    /\ parsed' = parse_list(Str(JoinComma(params.list)))
    /\ pc' = "again"
    /\ UNCHANGED <<argv, group, obj, params, request, calls, outcome, response,
                   stdout, stderr, exit_code>>

ParseListNext ==
    \/ ParseList
    \/ ParseListAgain

ParseListSpec == ParseListInit /\ [][ParseListNext]_vars

\* C11: parse_list returns None for an empty or absent input, and for every
\* other input a list that, joined with commas and parsed again, is returned
\* unchanged.
C11_ParseListIdempotent ==
    /\ (pc = "result" /\ ~Truthy(argv.value)) => IsNone(params)
    /\ pc = "again" => parsed = params

-----------------------------------------------------------------------------
(* Properties of the requests *)

\* the commands that build a request from their options
RequestCommands == {"search", "extract", "crawl", "map"}

\* a request has been built and sent
Sent == calls >= 1 /\ argv.cmd \in RequestCommands

\* the options declared without a default, with the request parameter each
\* one becomes
OptionalParams(cmd) ==
    CASE cmd = "search" ->
            {<<"time_range", "time_range">>, <<"include_answer", "include_answer">>,
             <<"include_raw", "include_raw_content">>,
             <<"include_domains", "include_domains">>,
             <<"exclude_domains", "exclude_domains">>, <<"country", "country">>}
      [] cmd = "extract" -> {<<"timeout", "timeout">>}
      [] cmd = "crawl" ->
            {<<"instructions", "instructions">>, <<"select_paths", "select_paths">>,
             <<"exclude_paths", "exclude_paths">>, <<"select_domains", "select_domains">>,
             <<"exclude_domains", "exclude_domains">>, <<"timeout", "timeout">>}
      [] cmd = "map" ->
            {<<"instructions", "instructions">>, <<"select_paths", "select_paths">>,
             <<"exclude_paths", "exclude_paths">>, <<"select_domains", "select_domains">>,
             <<"exclude_domains", "exclude_domains">>, <<"timeout", "timeout">>}

ListParams ==
    {"include_domains", "exclude_domains", "select_paths", "exclude_paths",
     "select_domains"}

\* a string that is empty or holds only commas and whitespace
NoElements(v) ==
    IsStr(v) /\ \A i \in 1..Len(v.str) : v.str[i] \in {",", " ", "\t", "\n"}

FlagMapping(option, param, named, bare) ==
    /\ IsNone(option) => param \notin DOMAIN request
    /\ option \in named => (param \in DOMAIN request /\ request[param] = option)
    /\ IsBare(option) => (param \in DOMAIN request /\ request[param] = bare)
    /\ option = Lit("true") => (param \in DOMAIN request /\ request[param] = Bool(TRUE))

\* C13: search omits include_answer when -a is absent, sends the given value
\* when it is 'basic' or 'advanced' ('basic' for a bare -a) and sends the
\* boolean true for the literal 'true'; include_raw_content follows -r in the
\* same way with 'markdown' and 'text' ('markdown' for a bare -r).
C13_IncludeFlagMapping ==
    (Sent /\ argv.cmd = "search") =>
        /\ FlagMapping(argv.include_answer, "include_answer",
                       {Lit("basic"), Lit("advanced")}, Lit("basic"))
        /\ FlagMapping(argv.include_raw, "include_raw_content",
                       {Lit("markdown"), Lit("text")}, Lit("markdown"))

C13_Witness ==
    /\ Sent /\ argv.cmd = "search"
    /\ argv.include_answer = Lit("true")
    /\ request["include_answer"] = Bool(TRUE)
    /\ "include_raw_content" \notin DOMAIN request

-----------------------------------------------------------------------------
(* Properties of the usage display *)

\* the usage response under display has no key limit: null or absent
LimitNullOrAbsent ==
    IsNone(DictGet(DictGet(response, "key", Dict(<<>>)), "limit", None))

UsageDisplayed == Displayed /\ argv.cmd = "usage"

\* some printed line holds the word
Prints(word) == \E i \in 1..Len(stdout) : \E j \in 1..Len(stdout[i]) : stdout[i][j] = word

\* C14 as stated: a usage response whose key.limit is null or absent renders
\* the literal 'Unlimited' in all three output modes, json included.
C14_AsStated == (UsageDisplayed /\ LimitNullOrAbsent) => Prints("Unlimited")

\* C14: a usage response whose key.limit is null or absent renders the literal
\* 'Unlimited' as the limit in text and markdown modes; json mode prints the
\* response as it is.
C14_UnlimitedInTextModes ==
    (UsageDisplayed /\ LimitNullOrAbsent) =>
        /\ obj.output_format = "text" => stdout[5] = <<"  Limit: ", "Unlimited">>
        /\ obj.output_format = "markdown" => stdout[5] = <<"- **Limit:** ", "Unlimited">>
        /\ obj.output_format = "json" => stdout = SplitLines(json_dumps(response, 0))

C14_Witness ==
    /\ UsageDisplayed /\ obj.output_format = "markdown"
    /\ DictHas(DictGet(response, "key", Dict(<<>>)), "limit")
    /\ LimitNullOrAbsent
    /\ stdout[5] = <<"- **Limit:** ", "Unlimited">>

-----------------------------------------------------------------------------
(* The display methods on responses that lack fields, or carry fields the     *)
(* methods do not name: a response is external data, and a display method     *)
(* reads each field with response.get(field, default).                        *)

\* the longest sequence of items that lack fields
MaxSparse == 1

\* every dict made of a subset of the fields, in the fields' order
Subsets(fields) ==
    {DictOf([i \in 1..Len(fields) |-> <<keep[i], fields[i][1], fields[i][2]>>]) :
        keep \in [1..Len(fields) -> BOOLEAN]}

SparseSearchItems ==
    Subsets(<< <<"title", Text("Test Result")>>, <<"url", Text("https://example.com")>>,
               <<"content", Chars4>>, <<"score", Float(90)>> >>)

SparsePageItems ==
    Subsets(<< <<"url", Text("https://example.com/page1")>>, <<"raw_content", Chars4>> >>)

SparseFailedItems ==
    Subsets(<< <<"url", Text("https://example.org")>>, <<"error", Text("Timed out")>> >>)

SparseImages ==
    {List(<<>>), List(<<Text("https://example.com/a.png")>>),
     List(<<Dict(<<>>),
            Dict(<< <<"url", Text("https://example.com/b.png")>>,
                    <<"description", Text("A picture")>> >>)>>)}

\* responses with every subset of their fields, at top level and in the items
SparseResponses(cmd) ==
    CASE cmd = "search" ->
            UNION {Subsets(<< <<"query", Text("test query")>>,
                              <<"answer", Text("Test answer")>>,
                              <<"results", List(rs)>>,
                              <<"images", im>>,
                              <<"response_time", Float(150)>> >>) :
                      rs \in SeqsUpTo(SparseSearchItems, MaxSparse), im \in SparseImages}
      [] cmd = "extract" ->
            UNION {Subsets(<< <<"results", List(rs)>>,
                              <<"failed_results", List(fs)>>,
                              <<"response_time", Float(50)>> >>) :
                      rs \in SeqsUpTo(SparsePageItems, MaxSparse),
                      fs \in SeqsUpTo(SparseFailedItems, MaxSparse)}
      [] cmd = "crawl" ->
            UNION {Subsets(<< <<"base_url", Text("https://example.com")>>,
                              <<"results", List(rs)>>,
                              <<"response_time", Float(500)>> >>) :
                      rs \in SeqsUpTo(SparsePageItems, MaxSparse)}
      [] cmd = "map" ->
            UNION {Subsets(<< <<"base_url", Text("https://example.com")>>,
                              <<"results", List(rs)>>,
                              <<"response_time", Float(200)>> >>) :
                      rs \in SeqsUpTo({Text("https://example.com/page1")}, MaxSparse)}
      [] cmd = "usage" ->
            UNION {Subsets(<< <<"key", k>>, <<"account", a>> >>) :
                      k \in Subsets(<< <<"usage", PyInt(150)>>, <<"limit", PyInt(1000)>> >>),
                      a \in Subsets(<< <<"current_plan", Text("Researcher")>>,
                                       <<"plan_usage", PyInt(500)>>,
                                       <<"plan_limit", PyInt(1000)>>,
                                       <<"paygo_usage", PyInt(7)>>,
                                       <<"paygo_limit", PyInt(100)>> >>)}

RECURSIVE Extended(_)
\* the value with fields no display method names added to every dict in it:
\* one before and one after the dict's own fields
Extended(v) ==
    IF IsDict(v)
    THEN Dict(<< <<"request_id", Text("req-1")>> >>
              \o [j \in 1..Len(v.dict) |-> <<v.dict[j][1], Extended(v.dict[j][2])>>]
              \o << <<"auto_parameters",
                      Dict(<< <<"topic", None>>, <<"tags", List(<<PyInt(1)>>)>> >>)>> >>)
    ELSE IF IsList(v) THEN List([i \in 1..Len(v.list) |-> Extended(v.list[i])])
    ELSE v

\* responses that carry unknown fields, at top level and in their items
ExtendedResponses(cmd) == {Extended(r) : r \in FlowResponses(cmd)}

\* usage responses whose limits are absent, null, zero or positive
LimitResponses(cmd) ==
    IF cmd # "usage" THEN {}
    ELSE {Dict(<< <<"key", DictOf(<< <<TRUE, "usage", PyInt(150)>>,
                                     <<hl, "limit", lim>> >>)>>,
                  <<"account",
                    Dict(<< <<"current_plan", Text("Researcher")>>,
                            <<"plan_usage", PyInt(500)>>,
                            <<"plan_limit", pl>>,
                            <<"paygo_usage", PyInt(0)>>,
                            <<"paygo_limit", pg>> >>)>> >>) :
            hl \in BOOLEAN, lim \in {None, PyInt(0), PyInt(1000)},
            pl \in {PyInt(0), PyInt(1000)}, pg \in {PyInt(0), PyInt(100)}}

FieldsInit ==
    /\ pc = "display"
    /\ \E cmd \in Commands, f \in OUTPUT_FORMATS :
          /\ argv = BaseArgv(cmd)
          /\ obj = TavilyCLI(Lit("test"), f)
          /\ response \in SparseResponses(cmd) \cup FlowResponses(cmd)
                          \cup ExtendedResponses(cmd) \cup LimitResponses(cmd)
    /\ group = None
    /\ params = None
    /\ request = None
    /\ calls = 0
    /\ outcome = "ok"
    /\ stdout = <<>>
    /\ stderr = <<>>
    /\ exit_code = NoExit
    /\ parsed = None

FieldsSpec == FieldsInit /\ [][RenderNext]_vars

-----------------------------------------------------------------------------
(* Properties of the display methods on incomplete and extended responses *)

RECURSIVE WithDefaults(_, _)
\* the dict, with each field it lacks added at its default
WithDefaults(d, defaults) ==
    IF defaults = <<>> THEN d
    ELSE LET f == Head(defaults)
         IN  WithDefaults(IF DictHas(d, f[1]) THEN d ELSE Dict(Append(d.dict, f)),
                          Tail(defaults))

\* the dict, with the items of a list field completed
WithItems(d, key, defaults) ==
    Dict([j \in 1..Len(d.dict) |->
            IF d.dict[j][1] = key
            THEN <<key, List([i \in 1..Len(d.dict[j][2].list) |->
                                WithDefaults(d.dict[j][2].list[i], defaults)])>>
            ELSE d.dict[j]])

\* the dict, with the fields of a dict field completed
WithFields(d, key, defaults) ==
    Dict([j \in 1..Len(d.dict) |->
            IF d.dict[j][1] = key THEN <<key, WithDefaults(d.dict[j][2], defaults)>>
            ELSE d.dict[j]])

Empty == Str(<<>>)

\* the response with every absent optional field set to the default the claim
\* names for it
Completed(cmd, resp) ==
    CASE cmd = "search" ->
            WithItems(WithDefaults(resp, << <<"query", Empty>>, <<"results", List(<<>>)>>,
                                            <<"images", List(<<>>)>> >>),
                      "results",
                      << <<"title", Text("No title")>>, <<"url", Empty>>,
                         <<"content", Empty>>, <<"score", PyInt(0)>> >>)
      [] cmd = "extract" ->
            WithItems(WithItems(WithDefaults(resp, << <<"results", List(<<>>)>>,
                                                      <<"failed_results", List(<<>>)>> >>),
                                "results", << <<"url", Empty>>, <<"raw_content", Empty>> >>),
                      "failed_results", << <<"url", Empty>> >>)
      [] cmd = "crawl" ->
            WithItems(WithDefaults(resp, << <<"base_url", Empty>>, <<"results", List(<<>>)>> >>),
                      "results", << <<"url", Empty>>, <<"raw_content", Empty>> >>)
      [] cmd = "map" ->
            WithDefaults(resp, << <<"base_url", Empty>>, <<"results", List(<<>>)>> >>)
      [] cmd = "usage" ->
            WithFields(WithFields(WithDefaults(resp, << <<"key", Dict(<<>>)>>,
                                                        <<"account", Dict(<<>>)>> >>),
                                  "key", << <<"usage", PyInt(0)>> >>),
                       "account",
                       << <<"current_plan", Text("Unknown")>>, <<"plan_usage", PyInt(0)>>,
                          <<"plan_limit", PyInt(0)>>, <<"paygo_usage", PyInt(0)>>,
                          <<"paygo_limit", PyInt(0)>> >>)

EmptyResults == DictHas(response, "results") /\ DictGet(response, "results", None) = List(<<>>)

ResultsDisplayed == Displayed /\ argv.cmd \in RequestCommands

TextMode == obj.output_format \in {"text", "markdown"}

\* a section header showing the count 0
CountZeroLine(line) == Len(line) = 3 /\ line[2] = "0" /\ line[3] \in {")", "):"}

\* the first line of a result item, as the command prints its items
ItemLine(cmd, line) ==
    /\ line # <<>>
    /\ IF cmd = "map" THEN line[1] \in {"- ", "  "}
       ELSE \/ line[1] \in {"### ", "## "} /\ Len(line) >= 3 /\ line[3] \in {". ", ". ["}
            \/ Len(line) >= 2 /\ line[2] = ". "

NoItemLines == \A i \in 1..Len(stdout) : ~ItemLine(argv.cmd, stdout[i])

\* C16 as stated: in all three output modes, and for search, extract, crawl
\* and map alike, a response with an empty results sequence is rendered with a
\* results header showing the count 0 and with no item lines.
C16_AsStated ==
    (ResultsDisplayed /\ EmptyResults) =>
        /\ \E i \in 1..Len(stdout) : CountZeroLine(stdout[i])
        /\ NoItemLines

\* the results header of a command for an empty results sequence
HeaderZero(cmd, is_md) ==
    CASE cmd = "search" -> IF is_md THEN <<"## Results (", "0", ")">>
                                    ELSE <<"Results (", "0", "):">>
      [] cmd = "crawl"  -> IF is_md THEN <<"## Pages Crawled (", "0", ")">>
                                    ELSE <<"Pages Crawled (", "0", "):">>
      [] cmd = "map"    -> IF is_md THEN <<"## URLs Found (", "0", ")">>
                                    ELSE <<"URLs Found (", "0", "):">>

\* C16: in text and markdown modes, search, crawl and map render an empty
\* results sequence as their results header with the count 0 and no item
\* lines; extract prints its 'Extracted Content' header, which carries no
\* count, and no item lines; json mode prints the response as it is.
C16_EmptyResultsHeader ==
    (ResultsDisplayed /\ EmptyResults) =>
        /\ (TextMode /\ argv.cmd \in {"search", "crawl", "map"}) =>
              /\ \E i \in 1..Len(stdout) :
                    stdout[i] = HeaderZero(argv.cmd, obj.output_format = "markdown")
              /\ NoItemLines
        /\ (TextMode /\ argv.cmd = "extract") =>
              /\ stdout[1] \in {<<"Extracted Content">>, <<"# Extracted Content">>}
              /\ \A i \in 1..Len(stdout) : ~CountZeroLine(stdout[i])
              /\ NoItemLines
        /\ ~TextMode => stdout = EchoJson(response)

C16_Witness ==
    /\ ResultsDisplayed /\ EmptyResults
    /\ argv.cmd = "crawl" /\ obj.output_format = "markdown"
    /\ stdout[3] = <<"## Pages Crawled (", "0", ")">>
    /\ Len(stdout) = 4

\* a number of hundredths written with two decimal places
TwoDecimals(h) ==
    IntText(h \div 100) \o <<".">> \o IntText((h % 100) \div 10) \o IntText(h % 10)

\* a line that reports the response time
TimeLine(line) == line # <<>> /\ line[1] \in {"Response time: ", "*Response time: "}

\* C17: in text and markdown modes of search, extract, crawl and map, the
\* 'Response time: <value>s' line, its value written with 2 decimal places, is
\* printed if and only if the response holds the key response_time, and it is
\* then the last line of the output.
C17_ResponseTimeLine ==
    (ResultsDisplayed /\ TextMode) =>
        IF DictHas(response, "response_time")
        THEN /\ stdout[Len(stdout)] =
                    IF obj.output_format = "markdown"
                    THEN <<"*Response time: ">>
                         \o TwoDecimals(DictGet(response, "response_time", None).float)
                         \o <<"s*">>
                    ELSE <<"Response time: ">>
                         \o TwoDecimals(DictGet(response, "response_time", None).float)
                         \o <<"s">>
             /\ \A i \in 1..(Len(stdout) - 1) : ~TimeLine(stdout[i])
        ELSE \A i \in 1..Len(stdout) : ~TimeLine(stdout[i])

C17_Witness ==
    /\ ResultsDisplayed /\ argv.cmd = "extract" /\ obj.output_format = "markdown"
    /\ Truthy(DictGet(response, "failed_results", None))
    /\ stdout[Len(stdout)] = <<"*Response time: ", "0", ".", "5", "0", "s*">>
    /\ stdout[Len(stdout) - 1] = <<>>

\* the fields the display method of a command names, in the response and in
\* the dicts inside it
KnownKeys(cmd) ==
    CASE cmd = "search" ->
            {"query", "answer", "results", "images", "response_time",
             "title", "url", "content", "score", "description"}
      [] cmd = "extract" ->
            {"results", "failed_results", "response_time", "url", "raw_content", "error"}
      [] cmd = "crawl" -> {"base_url", "results", "response_time", "url", "raw_content"}
      [] cmd = "map" -> {"base_url", "results", "response_time"}
      [] cmd = "usage" ->
            {"key", "account", "usage", "limit", "current_plan", "plan_usage",
             "plan_limit", "paygo_usage", "paygo_limit"}

RECURSIVE Known(_, _)
\* the value without the fields the command's display method does not name
Known(cmd, v) ==
    IF IsDict(v)
    THEN LET kept == SelectSeq(v.dict, LAMBDA e : e[1] \in KnownKeys(cmd))
         IN  Dict([j \in 1..Len(kept) |-> <<kept[j][1], Known(cmd, kept[j][2])>>])
    ELSE IF IsList(v) THEN List([i \in 1..Len(v.list) |-> Known(cmd, v.list[i])])
    ELSE v

\* C18: in text and markdown modes every display method prints for a response
\* exactly what it prints for the same response without the fields it does
\* not name, so two responses that differ only in such fields print the same;
\* in json mode the extra fields are printed with the rest and read back.
C18_UnknownFieldsIgnored ==
    /\ (Displayed /\ TextMode) =>
          stdout = Display(argv.cmd, obj.output_format, Known(argv.cmd, response))
    /\ (Displayed /\ ~TextMode) => (stdout # <<>> /\ stdout = EchoJson(response))
    /\ pc = "loaded" => Known(argv.cmd, parsed) = Known(argv.cmd, response)

C18_Witness ==
    /\ Displayed /\ argv.cmd = "extract" /\ obj.output_format = "text"
    /\ DictHas(response, "request_id") /\ DictHas(response, "auto_parameters")
    /\ Len(DictGet(response, "results", None).list) = 1
    /\ DictHas(DictGet(response, "results", None).list[1], "request_id")
    /\ Known("extract", response) # response
    /\ stdout = Display("extract", "text", Known("extract", response))

\* the request extract sends for the command line with another content format
RequestWithFormat(fmt) ==
    extract_kwargs(ExtractParams(Override(argv, [output_format |-> fmt])))

\* C19 as stated: extract maps the content format of --output-format
\* (markdown or text, markdown by default) into its request, so that the
\* command line with the other format sends a different request.
C19_ContentFormatSent ==
    (Sent /\ argv.cmd = "extract") =>
        /\ \E k \in DOMAIN request :
              request[k] = OrDefault(argv.output_format, Lit("markdown"))
        /\ argv.output_format = Lit("text") => request # RequestWithFormat(Lit("markdown"))

-----------------------------------------------------------------------------
(* Order of the key check and the subcommand's parsing *)

-----------------------------------------------------------------------------
(* The limits of the usage display *)

\* a field of the key or account part of the usage response under display
UsageField(part, field) == DictGet(DictGet(response, part, Dict(<<>>)), field, None)

\* the key limit as the claim renders it: the number when it is a non-zero
\* number, 'Unlimited' otherwise
RenderedLimit ==
    LET limit == UsageField("key", "limit")
    IN  IF IsInt(limit) /\ limit.int # 0 THEN IntText(limit.int) ELSE <<"Unlimited">>

\* the last piece of a printed line
LastPiece(line) == line[Len(line)]

\* C21: in text and markdown modes of usage the key limit is printed as its
\* number only when it is a non-zero number, and as 'Unlimited' when it is 0,
\* null or absent, while a plan_limit or paygo_limit of 0 is printed as the
\* number 0.
C21_ZeroLimitUnlimited ==
    (UsageDisplayed /\ TextMode) =>
        /\ stdout[5] = (IF obj.output_format = "markdown" THEN <<"- **Limit:** ">>
                        ELSE <<"  Limit: ">>) \o RenderedLimit
        /\ UsageField("account", "plan_limit") = PyInt(0) =>
              (LastPiece(stdout[9]) = "0" /\ stdout[9][Len(stdout[9]) - 1] = " / ")
        /\ UsageField("account", "paygo_limit") = PyInt(0) =>
              (LastPiece(stdout[10]) = "0" /\ stdout[10][Len(stdout[10]) - 1] = " / ")
        /\ \A i \in 6..Len(stdout) : \A j \in 1..Len(stdout[i]) : stdout[i][j] # "Unlimited"

C21_Witness ==
    /\ UsageDisplayed /\ obj.output_format = "text"
    /\ UsageField("key", "limit") = PyInt(0)
    /\ UsageField("account", "plan_limit") = PyInt(0)
    /\ UsageField("account", "paygo_limit") = PyInt(0)
    /\ stdout[5] = <<"  Limit: ", "Unlimited">>
    /\ stdout[9] = <<"  Plan Usage: ", "5", "0", "0", " / ", "0">>
    /\ stdout[10] = <<"  PayGo Usage: ", "0", " / ", "0">>

====
